---- MODULE Spec2Model ----
(***************************************************************************)
(* The scrape management command of lowdensh/joose                         *)
(* (products/management/commands/scrape.py): the crawl controller, the     *)
(* visit filter, the page extractor with its field cleaners, and the CSV   *)
(* sink; and the models of products/models.py and companies/models.py     *)
(* with the CSV import command (products/management/commands/             *)
(* csv-create.py) that stores the rows of a scrape in them.               *)
(*                                                                         *)
(* Conventions.  A Python str is a tuple of one-character strings.  An     *)
(* optional value (a BeautifulSoup lookup, a cleaner's result) is the      *)
(* empty tuple for None and a one-element tuple for a value.  An operator  *)
(* that can raise has a companion predicate <name>_raises.                 *)
(***************************************************************************)
EXTENDS Integers, Sequences, FiniteSets, TLC

(***************************************************************************)
(* The state.                                                              *)
(*   web        what the servers answer (fixed for a behaviour)            *)
(*   suppliers  kwargs['suppliers'] (fixed for a behaviour)                *)
(*   pc, turn   where handle is: its `for supplier` loop is at             *)
(*              suppliers[turn]                                            *)
(*   list_url, depth  the argument and the nesting depth of the running    *)
(*              call of access_page_products_list                          *)
(*   page, at   its soup, and the index of the product its loop is at      *)
(*   csv_path   self.csv_path                                              *)
(*   clock      datetime.now() to the second                               *)
(*   files      the files of CSV_ROOT: path -> the run that created the    *)
(*              file and its lines, each with the run that wrote it        *)
(*   outcome    how each supplier's turn ended                             *)
(*   cnt        what the current supplier's turn has done so far           *)
(*   last       the last step taken, its result and the write_list it      *)
(*              handed to csv_append_row                                   *)
(*   call       for a cleaner or the visit filter run on its own: the      *)
(*              function, its arguments and, once it has returned, what    *)
(*              it gave; for a create on a model, the model, the record    *)
(*              and the exception it raised, if any                        *)
(*   db         the tables of the database, a record's place in its table  *)
(*              being its primary key, and the links of the many-to-many   *)
(*              fields                                                     *)
(*   df         self.df of the import command: the rows of the CSV file    *)
(*              (fixed for a behaviour)                                    *)
(*   imp        where the import is: the run, the row, the stage of the    *)
(*              row, the objects the earlier stages gave and the errors    *)
(*              logged                                                     *)
(***************************************************************************)
VARIABLES web, suppliers, pc, turn, list_url, depth, page, at, csv_path,
          clock, files, outcome, cnt, last, call, db, df, imp

vars == << web, suppliers, pc, turn, list_url, depth, page, at, csv_path,
           clock, files, outcome, cnt, last, call, db, df, imp >>

None == <<>>
Some(x) == <<x>>
IsNone(o) == Len(o) = 0

(***************************************************************************)
(* Python str and re primitives                                            *)
(***************************************************************************)
Alphabet ==
    << "\t", "\n", " ", "\"", "+", ",", "-", ".", "/",
       "0", "1", "2", "3", "4", "5", "6", "7", "8", "9", ":", "<", "=", ">",
       "A", "B", "C", "D", "E", "F", "G", "H", "I", "J", "K", "L", "M",
       "N", "O", "P", "Q", "R", "S", "T", "U", "V", "W", "X", "Y", "Z",
       "a", "b", "c", "d", "e", "f", "g", "h", "i", "j", "k", "l", "m",
       "n", "o", "p", "q", "r", "s", "t", "u", "v", "w", "x", "y", "z" >>

Digits == {"0", "1", "2", "3", "4", "5", "6", "7", "8", "9"}

Upper ==
    << "A", "B", "C", "D", "E", "F", "G", "H", "I", "J", "K", "L", "M",
       "N", "O", "P", "Q", "R", "S", "T", "U", "V", "W", "X", "Y", "Z" >>

Lower ==
    << "a", "b", "c", "d", "e", "f", "g", "h", "i", "j", "k", "l", "m",
       "n", "o", "p", "q", "r", "s", "t", "u", "v", "w", "x", "y", "z" >>

\* The code point order of the characters (their rank in Alphabet).
Ord(c) == CHOOSE i \in 1..Len(Alphabet) : Alphabet[i] = c

IsUpper(c) == \E i \in 1..Len(Upper) : Upper[i] = c

LowerChar(c) ==
    IF IsUpper(c) THEN Lower[CHOOSE i \in 1..Len(Upper) : Upper[i] = c] ELSE c

\* str.lower()
RECURSIVE lower(_)
lower(s) ==
    IF Len(s) = 0 THEN <<>> ELSE <<LowerChar(Head(s))>> \o lower(Tail(s))

IsSpace(c) == c \in {" ", "\t", "\n"}

IsDigit(c) == c \in Digits

SetMin(S) == CHOOSE m \in S : \A x \in S : m <= x

SetMax(S) == CHOOSE m \in S : \A x \in S : m >= x

\* sub occurs in s at the 1-based position i
StartsAt(s, sub, i) ==
    /\ i + Len(sub) - 1 <= Len(s)
    /\ \A k \in 1..Len(sub) : s[i + k - 1] = sub[k]

\* str.find(sub): the 0-based index of the first occurrence, or -1
find(s, sub) ==
    LET hits == {i \in 1..(Len(s) + 1) : StartsAt(s, sub, i)}
    IN  IF hits = {} THEN -1 ELSE SetMin(hits) - 1

\* str.rfind(sub): the 0-based index of the last occurrence, or -1
rfind(s, sub) ==
    LET hits == {i \in 1..(Len(s) + 1) : StartsAt(s, sub, i)}
    IN  IF hits = {} THEN -1 ELSE SetMax(hits) - 1

\* the Python test `sub in s`
Contains(sub, s) == find(s, sub) # -1

RECURSIVE lstrip(_)
lstrip(s) ==
    IF Len(s) > 0 /\ IsSpace(s[1]) THEN lstrip(Tail(s)) ELSE s

RECURSIVE rstrip(_)
rstrip(s) ==
    IF Len(s) > 0 /\ IsSpace(s[Len(s)])
    THEN rstrip(SubSeq(s, 1, Len(s) - 1))
    ELSE s

\* str.strip()
strip(s) == rstrip(lstrip(s))

\* the list comprehension [v.strip() for v in list]
RECURSIVE strip_each(_)
strip_each(list) ==
    IF Len(list) = 0 THEN <<>>
    ELSE <<strip(Head(list))>> \o strip_each(Tail(list))

\* re.split on a pattern that is an alternation of single characters
RECURSIVE re_split(_, _)
re_split(seps, s) ==
    LET cuts == {i \in 1..Len(s) : s[i] \in seps}
    IN  IF cuts = {}
        THEN <<s>>
        ELSE LET i == SetMin(cuts)
             IN  <<SubSeq(s, 1, i - 1)>>
                    \o re_split(seps, SubSeq(s, i + 1, Len(s)))

\* str.split(): the maximal runs of non-space characters
RECURSIVE split(_)
split(s) ==
    LET t == lstrip(s)
        gaps == {i \in 1..Len(t) : IsSpace(t[i])}
        n == IF gaps = {} THEN Len(t) + 1 ELSE SetMin(gaps)
    IN  IF Len(t) = 0
        THEN <<>>
        ELSE <<SubSeq(t, 1, n - 1)>> \o split(SubSeq(t, n, Len(t)))

\* sep.join(list)
RECURSIVE join(_, _)
join(sep, list) ==
    IF Len(list) = 0 THEN <<>>
    ELSE IF Len(list) = 1 THEN list[1]
    ELSE list[1] \o sep \o join(sep, Tail(list))

\* the order of Python str: the first differing code point, then length
TextLess(a, b) ==
    \E k \in 1..(Len(a) + 1) :
        /\ \A j \in 1..(k - 1) : j <= Len(b) /\ a[j] = b[j]
        /\ k <= Len(b)
        /\ (k > Len(a) \/ Ord(a[k]) < Ord(b[k]))

\* set(list)
set(list) == {list[i] : i \in 1..Len(list)}

\* list(S) for a set S of str: a set is iterated in the order of the hashes
\* of its elements, which differs from process to process, so any order of
\* the elements is a possible result
RECURSIVE listed(_)
listed(S) ==
    IF S = {} THEN {<<>>}
    ELSE UNION {{<<x>> \o rest : rest \in listed(S \ {x})} : x \in S}

\* x put into a sorted list, after the elements that are not above it
RECURSIVE insort(_, _)
insort(sorted_list, x) ==
    IF Len(sorted_list) = 0 THEN <<x>>
    ELSE IF TextLess(x, Head(sorted_list)) THEN <<x>> \o sorted_list
    ELSE <<Head(sorted_list)>> \o insort(Tail(sorted_list), x)

\* a variant that leaves the list in the order it has
unsorted(iterable) == iterable

\* sorted(iterable) for a list of str
RECURSIVE sorted(_)
sorted(iterable) ==
    IF Len(iterable) = 0 THEN <<>>
    ELSE insort(sorted(SubSeq(iterable, 1, Len(iterable) - 1)),
                iterable[Len(iterable)])

\* the length of the run of digits of s that starts at position i
RECURSIVE digit_run(_, _)
digit_run(s, i) ==
    IF i <= Len(s) /\ IsDigit(s[i]) THEN 1 + digit_run(s, i + 1) ELSE 0

(***************************************************************************)
(* A regular expression is a tuple of atoms: a one-character string is     *)
(* that literal, "\\d" one digit, "\\d+" a greedy run of digits and        *)
(* "(\\.\\d+)?" the optional fraction.  In every pattern of the program a  *)
(* digit run is followed by a non-digit or by nothing, so the greedy match *)
(* is the match the backtracking engine finds.  re_match gives the         *)
(* position after the match that starts at i, or 0 when there is none.     *)
(***************************************************************************)
RECURSIVE re_match(_, _, _, _)
re_match(p, s, i, ignorecase) ==
    IF Len(p) = 0 THEN i
    ELSE LET a == Head(p)
         IN  CASE a = "\\d+" ->
                    LET n == digit_run(s, i)
                    IN  IF n = 0 THEN 0
                        ELSE re_match(Tail(p), s, i + n, ignorecase)
               [] a = "\\d" ->
                    IF i <= Len(s) /\ IsDigit(s[i])
                    THEN re_match(Tail(p), s, i + 1, ignorecase)
                    ELSE 0
               [] a = "(\\.\\d+)?" ->
                    LET e == re_match(<<".", "\\d+">>, s, i, ignorecase)
                    IN  re_match(Tail(p), s, IF e = 0 THEN i ELSE e, ignorecase)
               [] OTHER ->
                    IF /\ i <= Len(s)
                       /\ \/ s[i] = a
                          \/ ignorecase /\ LowerChar(s[i]) = LowerChar(a)
                    THEN re_match(Tail(p), s, i + 1, ignorecase)
                    ELSE 0

\* re.search(p, s): group(0) of the leftmost match, or None
re_search(p, s, ignorecase) ==
    LET hits == {i \in 1..(Len(s) + 1) : re_match(p, s, i, ignorecase) # 0}
    IN  IF hits = {} THEN None
        ELSE LET i == SetMin(hits)
             IN  Some(SubSeq(s, i, re_match(p, s, i, ignorecase) - 1))

\* re.sub(p, '', s): s without the non-overlapping matches of p
RECURSIVE re_sub_from(_, _, _, _)
re_sub_from(p, s, i, ignorecase) ==
    IF i > Len(s) THEN <<>>
    ELSE LET e == re_match(p, s, i, ignorecase)
         IN  IF e > i
             THEN re_sub_from(p, s, e, ignorecase)
             ELSE <<s[i]>> \o re_sub_from(p, s, i + 1, ignorecase)

re_sub(p, s, ignorecase) == re_sub_from(p, s, 1, ignorecase)

\* a variant that leaves every element as it is
keep_each(p, list) == list

\* the list comprehension [re.sub(p, '', v, flags=re.IGNORECASE) for v in list]
RECURSIVE re_sub_each(_, _)
re_sub_each(p, list) ==
    IF Len(list) = 0 THEN <<>>
    ELSE <<re_sub(p, Head(list), TRUE)>> \o re_sub_each(p, Tail(list))

\* the `for criterion in ...: s = re.sub(criterion, '', s, IGNORECASE)` loops
RECURSIVE remove_criteria(_, _)
remove_criteria(criteria, s) ==
    IF Len(criteria) = 0 THEN s
    ELSE remove_criteria(Tail(criteria), re_sub(Head(criteria), s, TRUE))

\* int(v) accepts an optional sign and a run of digits, with spaces around
int_ok(v) ==
    LET t == strip(v)
        d == IF Len(t) > 0 /\ t[1] \in {"+", "-"} THEN Tail(t) ELSE t
    IN  Len(d) > 0 /\ \A i \in 1..Len(d) : IsDigit(d[i])

RECURSIVE digits_value(_)
digits_value(d) ==
    IF Len(d) = 0 THEN 0
    ELSE 10 * digits_value(SubSeq(d, 1, Len(d) - 1)) + (Ord(d[Len(d)]) - Ord("0"))

int(v) ==
    LET t == strip(v)
    IN  IF Len(t) > 0 /\ t[1] = "-" THEN 0 - digits_value(Tail(t))
        ELSE IF Len(t) > 0 /\ t[1] = "+" THEN digits_value(Tail(t))
        ELSE digits_value(t)

(***************************************************************************)
(* Command.__init__: the configuration                                     *)
(***************************************************************************)
\* A listing URL is the number of the listing page it names; 0 is 'nope',
\* not a URL at all, and 1 the start page of the vapeclub catalog.
SUPPLIER_START_URL == [badurl |-> 0, vapeclub |-> 1]

CSV_MULTIVAL_SEP == <<"/">>

CSV_HEADERS ==
    << "name", "brand", "flavours", "volumes", "vg", "strengths",
       "is_shortfill", "is_salt_nic", "purchase_url", "image_url", "price",
       "rating", "num_ratings" >>

SKIP_product_url_part ==
    << <<"n","i","c","o","t","i","n","e","-","s","h","o","t","s">>,
       <<"v","a","p","e","-","p","o","d","s">>,
       <<"f","l","a","v","o","u","r","-","c","o","n","c","e","n","t","r",
         "a","t","e","s","-","d","i","y">>,
       <<"v","a","p","i","n","g","-","a","c","c","e","s","s","o","r","i",
         "e","s">>,
       <<"v","a","p","e","-","k","i","t","s">> >>

SKIP_product_title ==
    << <<"s","h","o","t">>,
       <<"d","i","s","p","o","s","a","b","l","e">>,
       <<"p","o","d">>,
       <<"c","o","n","c","e","n","t","r","a","t","e">>,
       <<"c","b","d">> >>

REMOVE_raw_name ==
    << <<"e","l","i","q","u","i","d">>,
       <<"e","-","l","i","q","u","i","d">>,
       <<"h","y","b","r","i","d"," ","s","a","l","t">>,
       <<"n","i","c"," ","s","a","l","t">>,
       <<"s","h","o","r","t","f","i","l","l">>,
       <<"\\d+","m","l">> >>

REMOVE_raw_brand ==
    << <<"n","i","c"," ","s","a","l","t","s">>,
       <<"\\d","\\d","/","\\d","\\d">>,
       <<"-"," ","\\d+","m","l">>,
       <<"\\d+","m","l">>,
       <<"a","n","y"," ","t","a","n","k">> >>

base_url ==
    << "h","t","t","p","s",":","/","/","w","w","w",".","v","a","p","e","c",
       "l","u","b",".","c","o",".","u","k" >>

(***************************************************************************)
(* The field cleaners.  A cleaner takes the text (or the sub-elements) of  *)
(* the region the page extractor found and gives None or Some(value).      *)
(***************************************************************************)
\* a variant that looks for 'from' in the text as it is written
clean_price_cased(raw_price) ==
    IF find(raw_price, <<"f","r","o","m">>) # -1
    THEN None
    ELSE re_search(<<"\\d+", ".", "\\d+">>, raw_price, FALSE)

clean_price(raw_price) ==
    LET text == lower(raw_price)
    IN  IF find(text, <<"f","r","o","m">>) # -1
        THEN None
        ELSE re_search(<<"\\d+", ".", "\\d+">>, text, FALSE)

\* the pair (clean_name, clean_brand), or (None, None)
clean_name_brand(raw_title) ==
    LET by_idx == rfind(lower(raw_title), <<"b","y">>)
        raw_name == SubSeq(raw_title, 1, by_idx)
        raw_brand == SubSeq(raw_title, by_idx + 3, Len(raw_title))
    IN  IF by_idx = -1
        THEN <<None, None>>
        ELSE << Some(join(<<" ">>, split(remove_criteria(REMOVE_raw_name, raw_name)))),
                Some(join(<<" ">>, split(remove_criteria(REMOVE_raw_brand, raw_brand)))) >>

\* raw_flavours_dt is None or Some(dd), dd the text of the dt's next dd
\* sibling (None when there is none); raw_flavours_sub is None or Some(text).
\* `raw_flavours_dd.text` on a missing sibling raises AttributeError.
clean_flavours_raises(raw_flavours_dt, raw_flavours_sub) ==
    /\ ~IsNone(raw_flavours_sub)
    /\ ~IsNone(raw_flavours_dt)
    /\ IsNone(raw_flavours_dt[1])

\* The results clean_flavours can give: one for every order in which
\* list(set | set) may hand the flavours to sorted.
clean_flavours(raw_flavours_dt, raw_flavours_sub) ==
    IF IsNone(raw_flavours_sub)
    THEN {None}
    ELSE LET split_dd == IF IsNone(raw_flavours_dt)
                         THEN <<>>
                         ELSE re_split({",", "/"}, raw_flavours_dt[1][1])
             split_sub == re_split({",", "/"}, raw_flavours_sub[1])
             flavours_list_dd == strip_each(split_dd)
             flavours_list_sub == strip_each(split_sub)
             flavours_lists ==
                 listed(set(flavours_list_dd) \cup set(flavours_list_sub))
         IN  { Some(join(CSV_MULTIVAL_SEP, sorted(flavours_list))) :
                   flavours_list \in flavours_lists }

\* the `for v in volumes_list` loop: "True" at the first volume above 10
\* (break), "ValueError" at the first token int() rejects, else "False"
RECURSIVE shortfill_loop(_, _)
shortfill_loop(volumes_list, i) ==
    IF i > Len(volumes_list) THEN "False"
    ELSE IF ~int_ok(volumes_list[i]) THEN "ValueError"
    ELSE IF int(volumes_list[i]) > 10 THEN "True"
    ELSE shortfill_loop(volumes_list, i + 1)

\* the pair (clean_volumes, is_shortfill), or (None, None)
clean_volumes(raw_volumes) ==
    LET tokens == re_split({","}, raw_volumes)
        volumes_list == re_sub_each(<<"m","l">>, strip_each(tokens))
        looped == shortfill_loop(volumes_list, 1)
    IN  IF Len(raw_volumes) = 0 \/ looped = "ValueError"
        THEN <<None, None>>
        ELSE <<Some(join(CSV_MULTIVAL_SEP, volumes_list)), Some(looped = "True")>>

\* raw_vg is str(raw_vg), the markup of the element
clean_vg(raw_vg) == re_search(<<"\\d+">>, raw_vg, FALSE)

\* strength_levels is the list of the texts of the spans of the element;
\* find_all gives a list, never None, so the `is None` test never fires
clean_strengths(strength_levels) ==
    LET strengths_list == strength_levels
        val == lower(strengths_list[1])
        stripped == re_sub_each(<<"m","g">>, strengths_list)
    IN  IF Len(strengths_list) = 1 /\ Contains(<<"s","h","o","r","t","f","i","l","l">>, val)
        THEN Some(<<"0">>)
        ELSE IF Len(strengths_list) = 1 /\ Contains(<<"s","h","o","t">>, val)
        THEN None
        ELSE Some(join(CSV_MULTIVAL_SEP, stripped))

get_salt(raw_title) == find(lower(raw_title), <<"s","a","l","t">>) # -1

\* image_container has a: None or Some(href) and img: None or Some(src),
\* href and src themselves None or Some(text)
get_image_url(image_container) ==
    IF ~IsNone(image_container.a)
    THEN (IF IsNone(image_container.a[1]) THEN <<>> ELSE image_container.a[1][1])
    ELSE IF ~IsNone(image_container.img)
    THEN (IF IsNone(image_container.img[1]) THEN <<>> ELSE image_container.img[1][1])
    ELSE <<>>

\* review_score has stars: None or Some(span), span None or Some(title),
\* title None or Some(text); and reviews: None or Some(text of the link).
\* A missing inner span or link raises AttributeError, a span without a
\* title makes re.search raise TypeError.
clean_ratings_raises(review_score) ==
    /\ ~IsNone(review_score.stars)
    /\ \/ IsNone(review_score.stars[1])
       \/ IsNone(review_score.stars[1][1])
       \/ /\ ~IsNone(re_search(<<"\\d+", "(\\.\\d+)?">>,
                               review_score.stars[1][1][1], FALSE))
          /\ IsNone(review_score.reviews)

\* the pair (clean_rating, clean_num_ratings); the int 0 is written "0"
clean_ratings(review_score) ==
    LET rating_digits == re_search(<<"\\d+", "(\\.\\d+)?">>,
                                   review_score.stars[1][1][1], FALSE)
        num_digits == re_search(<<"\\d+">>, review_score.reviews[1], FALSE)
    IN  IF IsNone(review_score.stars) THEN << <<"0">>, <<"0">> >>
        ELSE IF IsNone(rating_digits) THEN << <<"0">>, <<"0">> >>
        ELSE IF IsNone(num_digits) THEN << <<"0">>, <<"0">> >>
        ELSE <<rating_digits[1], num_digits[1]>>

(***************************************************************************)
(* The visit filter.  A listing entry (a productGridItem) has h5: None or  *)
(* Some(a), a: None or Some of the link, a record of its href (None or     *)
(* Some(text)) and its text.                                               *)
(***************************************************************************)
\* str(x) of an attribute value that may be None
str_attr(v) == IF IsNone(v) THEN <<"N","o","n","e">> ELSE v[1]

\* str(tag) of a link: its markup, attributes included
str_tag(a) ==
    IF IsNone(a.href)
    THEN <<"<","a",">">> \o a.text \o <<"<","/","a",">">>
    ELSE <<"<","a"," ","h","r","e","f","=","\"">> \o a.href[1] \o <<"\"",">">>
            \o a.text \o <<"<","/","a",">">>

\* product_soup.find('h5').find('a').get('href') on a missing h5 or link
should_visit_raises(product_soup) ==
    IsNone(product_soup.h5) \/ IsNone(product_soup.h5[1])

\* a variant that only looks for the category marker
visit_by_category(product_soup) ==
    Contains(<<"e","-","l","i","q","u","i","d","s">>,
             lower(str_attr(product_soup.h5[1][1].href)))

should_visit(product_soup) ==
    LET product_title == product_soup.h5[1][1]
        product_url_part == product_title.href
        url_lower == lower(str_attr(product_url_part))
        title_lower == lower(str_tag(product_title))
    IN  /\ Contains(<<"e","-","l","i","q","u","i","d","s">>, url_lower)
        /\ \A c \in 1..Len(SKIP_product_url_part) :
              ~Contains(SKIP_product_url_part[c], url_lower)
        /\ \A c \in 1..Len(SKIP_product_title) :
              ~Contains(SKIP_product_title[c], title_lower)

\* f'{base_url}{product_url_part}'
product_url(product_soup) == base_url \o str_attr(product_soup.h5[1][1].href)

(***************************************************************************)
(* The page extractor: scrape_product after its request.  soup has one     *)
(* field per region the code looks up, None when the page lacks it.  The   *)
(* result is a cancel (with the topic and field given to log_cancel), a    *)
(* raise, or the write_list handed to csv_append_row.  scrape_product      *)
(* gives the results the extraction of a page can have, one for every      *)
(* result clean_flavours can give.                                         *)
(***************************************************************************)
Cancelled(topic, field) ==
    [kind |-> "cancel", topic |-> topic, field |-> field, write_list |-> <<>>]

Raised(exception) ==
    [kind |-> "raise", topic |-> exception, field |-> "", write_list |-> <<>>]

Extracted(write_list) ==
    [kind |-> "row", topic |-> "", field |-> "", write_list |-> write_list]

scrape_product_with(soup, url, csv_flavours) ==
    LET csv_price == clean_price(soup.price[1])
        name_brand == clean_name_brand(soup.title[1])
        volumes_short == clean_volumes(soup.volumes[1])
        csv_vg == clean_vg(soup.vg[1])
        csv_strengths == clean_strengths(soup.strengths[1])
        csv_salt == get_salt(soup.title[1])
        csv_image_url == IF IsNone(soup.image) THEN <<>>
                         ELSE get_image_url(soup.image[1])
        ratings == IF IsNone(soup.review) THEN << <<"0">>, <<"0">> >>
                   ELSE clean_ratings(soup.review[1])
    IN  IF IsNone(soup.price) THEN Cancelled("html", "price")
        ELSE IF IsNone(csv_price) THEN Cancelled("format", "price")
        ELSE IF IsNone(soup.title) THEN Cancelled("html", "title")
        ELSE IF IsNone(name_brand[1]) \/ IsNone(name_brand[2])
        THEN Cancelled("format", "name/brand")
        ELSE IF IsNone(soup.flavours_dt) /\ IsNone(soup.flavours_sub)
        THEN Cancelled("html", "flavours")
        ELSE IF clean_flavours_raises(soup.flavours_dt, soup.flavours_sub)
        THEN Raised("AttributeError")
        ELSE IF IsNone(csv_flavours) THEN Cancelled("format", "flavours")
        ELSE IF IsNone(soup.volumes) THEN Cancelled("html", "volumes")
        ELSE IF IsNone(volumes_short[1]) \/ IsNone(volumes_short[2])
        THEN Cancelled("format", "volumes")
        ELSE IF IsNone(soup.vg) THEN Cancelled("html", "vg")
        ELSE IF IsNone(csv_vg) THEN Cancelled("format", "vg")
        ELSE IF IsNone(soup.strengths) THEN Cancelled("html", "strengths")
        ELSE IF IsNone(csv_strengths) THEN Cancelled("format", "strengths")
        ELSE IF ~IsNone(soup.review) /\ clean_ratings_raises(soup.review[1])
        THEN Raised("AttributeError")
        ELSE Extracted(<< name_brand[1][1], name_brand[2][1], csv_flavours[1],
                          volumes_short[1][1], csv_vg[1], csv_strengths[1],
                          volumes_short[2][1], csv_salt, url, csv_image_url,
                          csv_price[1], ratings[1], ratings[2] >>)

\* (a call of clean_flavours that raises has no result)
scrape_product(soup, url) ==
    { scrape_product_with(soup, url, csv_flavours) :
          csv_flavours \in
              IF clean_flavours_raises(soup.flavours_dt, soup.flavours_sub)
              THEN {None}
              ELSE clean_flavours(soup.flavours_dt, soup.flavours_sub) }

(***************************************************************************)
(* The web the crawl runs against.  A listing page is the list of its      *)
(* productGridItems, each named by its index in Entries, and next, the     *)
(* listing URL of its next-page link (0: the page has none).  A product    *)
(* page is one of Soups, named by its index.  web names what the servers   *)
(* may answer: "open" any page of OpenPages for a listing URL, "e2e" the   *)
(* three-page catalog E2EPages, "one" a single page with one product and   *)
(* any product page of Soups, "visit" a single page with any one entry of  *)
(* Entries.                                                                *)
(*                                                                         *)
(* MaxSuppliers bounds the suppliers of an invocation, MaxEntries the      *)
(* productGridItems of a page of the open web, MaxUrl its listing URLs,    *)
(* and MaxDepth the nesting of access_page_products_list.                  *)
(***************************************************************************)
MaxSuppliers == 2

MaxEntries == 2

MaxUrl == 2

MaxDepth == 3

Link(href, text) == [h5 |-> Some(Some([href |-> Some(href), text |-> text]))]

EntryIce ==
    Link(<<"/","e","-","l","i","q","u","i","d","s","/","i","c","e">>,
         <<"I","c","e"," ","b","y"," ","Z","a","p">>)

EntryMint ==
    Link(<<"/","e","-","l","i","q","u","i","d","s","/","m","i","n","t">>,
         <<"M","i","n","t"," ","b","y"," ","Z","a","p">>)

EntryKiwi ==
    Link(<<"/","e","-","l","i","q","u","i","d","s","/","k","i","w","i">>,
         <<"K","i","w","i"," ","b","y"," ","Z","a","p">>)

EntryLime ==
    Link(<<"/","e","-","l","i","q","u","i","d","s","/","l","i","m","e">>,
         <<"L","i","m","e"," ","b","y"," ","Z","a","p">>)

EntryKit ==
    Link(<<"/","v","a","p","e","-","k","i","t","s","/","k","i","t">>,
         <<"K","i","t"," ","b","y"," ","Z","a","p">>)

\* a productGridItem without a heading
EntryBare == [h5 |-> None]

\* the links the visit filter is tried on: every href of FilterHrefs (None:
\* the link has no href) with every text of FilterTitles
FilterHrefs ==
    << None,
       Some(<<"/","e","-","l","i","q","u","i","d","s","/","i","c","e">>),
       Some(<<"/","E","-","L","i","q","u","i","d","s","/","i","c","e">>),
       Some(<<"/","e","l","i","q","u","i","d","s","/","i","c","e">>),
       Some(<<"/","e","-","l","i","q","u","i","d","s","/","n","i","c","o","t","i","n","e","-","s","h","o","t","s","/","x">>),
       Some(<<"/","e","-","l","i","q","u","i","d","s","/","V","a","p","e","-","P","o","d","s","/","x">>),
       Some(<<"/","e","-","l","i","q","u","i","d","s","/","f","l","a","v","o","u","r","-","c","o","n","c","e","n","t","r","a","t","e","s","-","d","i","y","/","x">>),
       Some(<<"/","e","-","l","i","q","u","i","d","s","/","v","a","p","i","n","g","-","a","c","c","e","s","s","o","r","i","e","s","/","x">>),
       Some(<<"/","e","-","l","i","q","u","i","d","s","/","v","a","p","e","-","k","i","t","s","/","x">>),
       Some(<<"/","e","-","l","i","q","u","i","d","s","/","i","p","o","d">>) >>

FilterTitles ==
    << <<"I","c","e"," ","b","y"," ","Z","a","p">>,
       <<"N","i","c"," ","S","h","o","t"," ","b","y"," ","Z","a","p">>,
       <<"S","H","O","T">>,
       <<"D","i","s","p","o","s","a","b","l","e"," ","B","a","r">>,
       <<"P","o","d"," ","J","u","i","c","e">>,
       <<"I","c","e"," ","P","o","d","i","u","m">>,
       <<"C","o","n","c","e","n","t","r","a","t","e">>,
       <<"c","b","D"," ","O","i","l">>,
       <<"P","o","p">> >>

RECURSIVE FilterEntriesRange(_, _)
FilterEntriesRange(lo, hi) ==
    IF lo > hi THEN <<>>
    ELSE IF lo = hi
    THEN <<[h5 |-> Some(Some(
               [href |-> FilterHrefs[((lo - 1) \div Len(FilterTitles)) + 1],
                text |-> FilterTitles[((lo - 1) % Len(FilterTitles)) + 1]]))]>>
    ELSE FilterEntriesRange(lo, (lo + hi) \div 2)
            \o FilterEntriesRange(((lo + hi) \div 2) + 1, hi)

FilterEntries == FilterEntriesRange(1, Len(FilterHrefs) * Len(FilterTitles))

Entries ==
    <<EntryIce, EntryMint, EntryKiwi, EntryLime, EntryKit, EntryBare>>
        \o FilterEntries

GoodSoup ==
    [ price |-> Some(<<"4",".","9","9">>),
      title |-> Some(<<"I","c","e"," ","b","y"," ","Z","a","p">>),
      flavours_dt |-> Some(Some(<<"M","i","n","t",","," ","I","c","e">>)),
      flavours_sub |-> Some(<<"i","c","e">>),
      volumes |-> Some(<<"1","0","m","l">>),
      vg |-> Some(<<"<","d","i","v"," ","c","l","a","s","s","=","\"","v","g",
                    "\"",">","7","0","<","/","d","i","v",">">>),
      strengths |-> Some(<< <<"3","m","g">>, <<"6","m","g">> >>),
      image |-> Some([a |-> Some(Some(<<"/","i",".","j","p","g">>)), img |-> None]),
      review |-> None ]

Soups ==
    << GoodSoup,
       [GoodSoup EXCEPT !.price = None],
       [GoodSoup EXCEPT !.flavours_dt = Some(None)],
       [GoodSoup EXCEPT !.price = Some(<<"F","r","o","m"," ","4",".","9","9">>)],
       [GoodSoup EXCEPT !.title = None],
       [GoodSoup EXCEPT !.title = Some(<<"I","c","y">>)],
       [GoodSoup EXCEPT !.title = Some(<<"b","y"," ","Z","a","p">>)],
       [GoodSoup EXCEPT !.title = Some(<<"I","c","e"," ","b","y">>)],
       [GoodSoup EXCEPT !.title = Some(<<"N","i","c"," ","S","a","l","t"," ",
                                         "b","y"," ","Z","a","p">>)],
       [GoodSoup EXCEPT !.flavours_dt = None],
       [GoodSoup EXCEPT !.flavours_sub = None],
       [GoodSoup EXCEPT !.flavours_dt = None, !.flavours_sub = None],
       [GoodSoup EXCEPT !.flavours_dt = None, !.flavours_sub = Some(<<>>)],
       [GoodSoup EXCEPT !.volumes = None],
       [GoodSoup EXCEPT !.volumes = Some(<<>>)],
       [GoodSoup EXCEPT !.volumes = Some(<<"1","0","m","l",","," ","5","0","m","l">>)],
       [GoodSoup EXCEPT !.volumes = Some(<<"5","0","+","1","0","m","l">>)],
       [GoodSoup EXCEPT !.vg = None],
       [GoodSoup EXCEPT !.vg = Some(<<"<","d","i","v"," ","c","l","a","s","s","=",
                                      "\"","v","g","\"",">","<","/","d","i","v",">">>)],
       [GoodSoup EXCEPT !.strengths = None],
       [GoodSoup EXCEPT !.strengths = Some(<<>>)],
       [GoodSoup EXCEPT !.strengths = Some(<< <<"S","h","o","r","t","f","i","l","l">> >>)],
       [GoodSoup EXCEPT !.strengths = Some(<< <<"N","i","c"," ","S","h","o","t">> >>)],
       [GoodSoup EXCEPT !.strengths = Some(<< <<"m","g">> >>)],
       [GoodSoup EXCEPT !.image = None],
       [GoodSoup EXCEPT !.image = Some([a |-> Some(None), img |-> None])],
       [GoodSoup EXCEPT !.image =
            Some([a |-> None, img |-> Some(Some(<<"/","s",".","j","p","g">>))])],
       [GoodSoup EXCEPT !.review =
            Some([stars |-> Some(Some(Some(<<"4",".","5">>))),
                  reviews |-> Some(<<"7","3"," ","r","e","v","i","e","w","s">>)])],
       [GoodSoup EXCEPT !.review = Some([stars |-> None, reviews |-> None])],
       [GoodSoup EXCEPT !.review = Some([stars |-> Some(None), reviews |-> None])],
       [GoodSoup EXCEPT !.review =
            Some([stars |-> Some(Some(Some(<<"4",".","5">>))),
                  reviews |-> Some(<<"n","o"," ","r","e","v","i","e","w","s">>)])],
       [GoodSoup EXCEPT !.volumes = Some(<<"5","0","m","l",","," ","1","0","m","l">>)],
       [GoodSoup EXCEPT !.strengths = Some(<< <<"6","m","g">>, <<"3","m","g">> >>)],
       [GoodSoup EXCEPT !.strengths = Some(<< <<"3","m","g">>, <<"3","m","g">> >>)],
       [GoodSoup EXCEPT !.review =
            Some([stars |-> Some(Some(None)),
                  reviews |-> Some(<<"7","3"," ","r","e","v","i","e","w","s">>)])],
       [GoodSoup EXCEPT !.review =
            Some([stars |-> Some(Some(Some(<<"4",".","5">>))), reviews |-> None])],
       [GoodSoup EXCEPT !.review =
            Some([stars |-> Some(Some(Some(<<"n","e","w">>))),
                  reviews |-> Some(<<"7","3"," ","r","e","v","i","e","w","s">>)])],
       [GoodSoup EXCEPT !.review =
            Some([stars |-> Some(Some(Some(<<"n","e","w">>))), reviews |-> None])],
       [GoodSoup EXCEPT !.review =
            Some([stars |-> Some(Some(Some(<<"4"," ","o","f"," ","5">>))),
                  reviews |-> Some(<<"1",",","2","0","4"," ","r","e","v","i","e","w","s">>)])],
       [GoodSoup EXCEPT !.image =
            Some([a |-> Some(None), img |-> Some(Some(<<"/","s",".","j","p","g">>))])],
       [GoodSoup EXCEPT !.image =
            Some([a |-> Some(Some(<<"/","i",".","j","p","g">>)),
                  img |-> Some(Some(<<"/","s",".","j","p","g">>))])],
       [GoodSoup EXCEPT !.image = Some([a |-> None, img |-> Some(None)])],
       [GoodSoup EXCEPT !.image = Some([a |-> None, img |-> None])],
       [GoodSoup EXCEPT !.price = None, !.title = None],
       [GoodSoup EXCEPT !.price = Some(<<"F","r","o","m"," ","4",".","9","9">>),
                        !.title = None],
       [GoodSoup EXCEPT !.title = None, !.volumes = Some(<<>>)],
       [GoodSoup EXCEPT !.title = Some(<<"I","c","y">>),
                        !.flavours_dt = None, !.flavours_sub = None],
       [GoodSoup EXCEPT !.flavours_dt = None, !.flavours_sub = None,
                        !.volumes = None],
       [GoodSoup EXCEPT !.flavours_sub = None, !.vg = None],
       [GoodSoup EXCEPT !.flavours_dt = Some(None), !.flavours_sub = None],
       [GoodSoup EXCEPT !.volumes = None, !.strengths = None],
       [GoodSoup EXCEPT !.volumes = Some(<<>>), !.vg = None],
       [GoodSoup EXCEPT !.vg = None,
                        !.strengths = Some(<< <<"N","i","c"," ","S","h","o","t">> >>)],
       [GoodSoup EXCEPT !.vg = Some(<<"<","d","i","v"," ","c","l","a","s","s","=",
                                      "\"","v","g","\"",">","<","/","d","i","v",">">>),
                        !.strengths = None],
       [GoodSoup EXCEPT !.strengths = None, !.image = None,
                        !.review = Some([stars |-> Some(None), reviews |-> None])] >>

\* the product pages the crawl specifications serve: a complete page, one
\* without a price and one whose flavour dt has no dd
CrawlSoups == {1, 2, 3}

\* the productGridItems of the open web: EntryIce, EntryKit, EntryBare
OpenEntries == {1, 5, 6}

OpenPages ==
    { [products |-> ps, next |-> n] :
        ps \in UNION {[1..m -> OpenEntries] : m \in 0..MaxEntries},
        n \in 0..MaxUrl }

E2EPages ==
    << [products |-> <<1, 2, 3>>, next |-> 2],
       [products |-> <<4>>, next |-> 3],
       [products |-> <<>>, next |-> 0] >>

OnePage == [products |-> <<1>>, next |-> 0]

\* the one-entry listing pages, one for every entry of Entries
EntryPages == {[products |-> <<e>>, next |-> 0] : e \in 1..Len(Entries)}

\* the pages a listing URL may answer with
ListingResponses(w, u) ==
    CASE w = "open" -> IF u \in 1..MaxUrl THEN OpenPages ELSE {}
      [] w = "e2e" -> IF u \in 1..Len(E2EPages) THEN {E2EPages[u]} ELSE {}
      [] w = "one" -> IF u = 1 THEN {OnePage} ELSE {}
      [] w = "visit" -> IF u = 1 THEN EntryPages ELSE {}

\* the product pages a product URL may answer with
ProductResponses(w) ==
    IF w = "one" THEN 1..Len(Soups) ELSE CrawlSoups

\* what the loop of access_page_products_list gets from should_visit
visit(product_soup) ==
    IF should_visit_raises(product_soup) THEN "raise"
    ELSE IF should_visit(product_soup) THEN "visit"
    ELSE "skip"

\* visit on every productGridItem of the web, in the order of Entries
RECURSIVE VisitsRange(_, _)
VisitsRange(lo, hi) ==
    IF lo > hi THEN <<>>
    ELSE IF lo = hi THEN <<visit(Entries[lo])>>
    ELSE VisitsRange(lo, (lo + hi) \div 2)
            \o VisitsRange(((lo + hi) \div 2) + 1, hi)

Visits == VisitsRange(1, Len(Entries))

\* scrape_product on the product page d for every visited productGridItem
RECURSIVE ScrapedRange(_, _, _)
ScrapedRange(d, lo, hi) ==
    IF lo > hi THEN <<>>
    ELSE IF lo = hi
    THEN <<IF Visits[lo] = "visit"
           THEN scrape_product(Soups[d], product_url(Entries[lo]))
           ELSE {}>>
    ELSE ScrapedRange(d, lo, (lo + hi) \div 2)
            \o ScrapedRange(d, ((lo + hi) \div 2) + 1, hi)

\* and on every product page of the web: Scraped[d][e]
RECURSIVE ScrapedPages(_)
ScrapedPages(d) ==
    IF d = 0 THEN <<>>
    ELSE Append(ScrapedPages(d - 1), ScrapedRange(d, 1, Len(Entries)))

Scraped == ScrapedPages(Len(Soups))

\* the supplier arguments of an invocation (nargs='+')
SupplierArgs ==
    UNION {[1..n -> {"vapeclub", "badurl", "nosuch"}] : n \in 1..MaxSuppliers}

NoPage == [products |-> <<>>, next |-> 0]

\* no function is run on its own
NoCall == [fn |-> "", args |-> <<>>, result |-> <<>>]

\* a database without a record
NoDb ==
    [Brand |-> <<>>, Supplier |-> <<>>, Flavour |-> <<>>, Strength |-> <<>>,
     Product |-> <<>>, ProductVariant |-> <<>>, SupplierInfo |-> <<>>,
     Product_flavours |-> <<>>, ProductVariant_strengths |-> <<>>]

\* no import is running
NoImport ==
    [run |-> 0, row |-> 0, stage |-> "", obj |-> <<>>, errors |-> <<>>,
     before |-> <<>>, first |-> <<>>]

ZeroCnt ==
    [probe |-> 0, csv |-> "none", listing |-> 0, followed |-> 0,
     product |-> 0, appended |-> 0]

\* what the last step did: the operation, how it ended and, for a product
\* page that was parsed, the page (its index in Soups), the field log_cancel
\* was given and the write_list handed to csv_append_row
Step(op, result) ==
    [op |-> op, result |-> result, soup |-> 0, field |-> "",
     write_list |-> <<>>]

\* try_request(list_url): None on a transport error or a bad status (logged),
\* else the response; responses is what the server may answer
try_request(responses) == {None} \cup {Some(r) : r \in responses}

\* a variant that writes the row at the head of the file
csv_insert_row(lines, item_list, by) ==
    <<[by |-> by, kind |-> "row", cells |-> item_list]>> \o lines

\* csv_append_row's open(csv_path, 'a') and writerow: the lines of the file
csv_append_row(lines, item_list, by) ==
    Append(lines, [by |-> by, kind |-> "row", cells |-> item_list])

\* create_csv's open(csv_path, 'w') and writerow(CSV_HEADERS)
create_csv(by) ==
    [by |-> by,
     lines |-> <<[by |-> by, kind |-> "header", cells |-> CSV_HEADERS]>>]

WriteFile(path, file) ==
    [p \in DOMAIN files \cup {path} |-> IF p = path THEN file ELSE files[p]]

\* start_scrape's test `if self.csv_path is None: return`
start_scrape_returns(path) == IsNone(path)

\* a variant that leaves handle at the first unsupported supplier
return_on_unsupported == "exit"

\* where handle goes on an unsupported supplier: `continue`
on_unsupported == "returned"

\* a variant that requests the listing page again
retry_listing == "access"

\* where access_page_products_list goes when try_request gave None: `return`
on_listing_failure == "returned"

\* where it goes when the page lists no products: `return`
on_no_products == "returned"

\* a variant that never finds the next-page link
no_next(soup) == 0

\* the URL of the recursive call: base_url + next_button.get('href')
next_url(soup) == soup.next

\* the run is over: control is back in handle's loop
Returned(result) ==
    /\ pc' = "returned"
    /\ outcome' = [outcome EXCEPT ![turn] = result]

InitWith(w) ==
    /\ web = w
    /\ suppliers \in SupplierArgs
    /\ pc = "handle"
    /\ turn = 1
    /\ list_url = 0
    /\ depth = 0
    /\ page = NoPage
    /\ at = 0
    /\ csv_path = None
    /\ clock = 0
    /\ files = [p \in {} |-> 0]
    /\ outcome = [r \in 1..Len(suppliers) |-> "pending"]
    /\ cnt = ZeroCnt
    /\ last = Step("init", "")
    /\ call = NoCall
    /\ db = NoDb
    /\ df = <<>>
    /\ imp = NoImport

Init == InitWith("open")

\* handle, lines 98-106: the CSV directory exists or is made, or handle returns
handle_mkdir ==
    /\ pc = "handle"
    /\ \E ok \in BOOLEAN :
          /\ pc' = IF ok THEN "for" ELSE "exit"
          /\ last' = Step("mkdir", IF ok THEN "ok" ELSE "error")
    /\ UNCHANGED << db, df, imp, call, web, suppliers, turn, list_url, depth, page, at, csv_path, clock,
                    files, outcome, cnt >>

\* handle, lines 108-121: the support test and the request of the start URL
handle_supplier ==
    /\ pc = "for"
    /\ turn <= Len(suppliers)
    /\ IF suppliers[turn] \notin DOMAIN SUPPLIER_START_URL
       THEN /\ pc' = on_unsupported
            /\ outcome' = [outcome EXCEPT ![turn] = "unsupported"]
            /\ last' = Step("supplier", "unsupported")
            /\ cnt' = cnt
       ELSE \E response \in try_request(
                    ListingResponses(web, SUPPLIER_START_URL[suppliers[turn]])) :
               /\ cnt' = [cnt EXCEPT !.probe = @ + 1]
               /\ IF IsNone(response)
                  THEN /\ Returned("request_failed")
                       /\ last' = Step("supplier", "request_failed")
                  ELSE /\ pc' = "start_scrape"
                       /\ outcome' = outcome
                       /\ last' = Step("supplier", "ok")
    /\ UNCHANGED << db, df, imp, call, web, suppliers, turn, list_url, depth, page, at, csv_path, clock,
                    files >>

\* start_scrape with create_csv: the file named by the second and the
\* supplier is opened for writing and gets the header.  When that raises,
\* csv_path keeps its value; the open may already have emptied the file.
start_scrape ==
    /\ pc = "start_scrape"
    /\ \E created \in BOOLEAN, opened \in BOOLEAN :
          LET path == <<clock, suppliers[turn]>>
              new_path == IF created THEN Some(path) ELSE csv_path
          IN  /\ csv_path' = new_path
              /\ files' = IF created THEN WriteFile(path, create_csv(turn))
                          ELSE IF opened
                          THEN WriteFile(path, [by |-> turn, lines |-> <<>>])
                          ELSE files
              /\ cnt' = [cnt EXCEPT !.csv = IF created THEN "created" ELSE "failed"]
              /\ last' = Step("create_csv", IF created THEN "ok" ELSE "error")
              /\ IF start_scrape_returns(new_path)
                 THEN /\ Returned("csv_failed")
                      /\ UNCHANGED << list_url, depth >>
                 ELSE /\ pc' = "access"
                      /\ list_url' = SUPPLIER_START_URL[suppliers[turn]]
                      /\ depth' = 1
                      /\ outcome' = outcome
    /\ UNCHANGED << db, df, imp, call, web, suppliers, turn, page, at, clock >>

\* access_page_products_list, lines 198-213: the request of the listing
\* page, its parse and the test for an empty page.  The calls nest, one
\* frame per listing page, and MaxDepth stands for the nesting the
\* interpreter's recursion limit leaves room for: in a deeper call
\* RecursionError is raised, either under requests.get, where try_request
\* catches it as a failed request, or outside a try block, where nothing
\* catches it.
access_page_products_list ==
    /\ pc = "access"
    /\ \E response \in (IF depth > MaxDepth THEN {None}
                        ELSE try_request(ListingResponses(web, list_url))),
          caught \in (IF depth > MaxDepth THEN BOOLEAN ELSE {TRUE}) :
          /\ cnt' = [cnt EXCEPT !.listing = @ + 1]
          /\ IF ~caught
             THEN /\ pc' = "raised"
                  /\ last' = Step("listing", "raised")
                  /\ UNCHANGED << page, at, outcome >>
             ELSE IF IsNone(response)
             THEN /\ pc' = on_listing_failure
                  /\ outcome' = [outcome EXCEPT ![turn] = "listing_failed"]
                  /\ last' = Step("listing", "request_failed")
                  /\ UNCHANGED << page, at >>
             ELSE IF Len(response[1].products) = 0
             THEN /\ pc' = on_no_products
                  /\ outcome' = [outcome EXCEPT ![turn] = "done"]
                  /\ last' = Step("listing", "empty")
                  /\ page' = response[1]
                  /\ at' = 1
             ELSE /\ pc' = "products"
                  /\ outcome' = outcome
                  /\ last' = Step("listing", "ok")
                  /\ page' = response[1]
                  /\ at' = 1
    /\ UNCHANGED << db, df, imp, call, web, suppliers, turn, list_url, depth, csv_path, clock, files >>

\* one turn of `for product in products`, lines 220-224, with scrape_product
access_page_product ==
    /\ pc = "products"
    /\ at <= Len(page.products)
    /\ LET product == page.products[at]
       IN  IF Visits[product] = "raise"
           THEN /\ pc' = "raised"
                /\ last' = Step("visit", "raised")
                /\ UNCHANGED << at, cnt, files >>
           ELSE IF Visits[product] = "skip"
           THEN /\ pc' = "products"
                /\ at' = at + 1
                /\ last' = Step("visit", "skip")
                /\ UNCHANGED << cnt, files >>
           ELSE \E response \in try_request(ProductResponses(web)) :
                  IF IsNone(response)
                  THEN /\ pc' = "products"
                       /\ at' = at + 1
                       /\ last' = Step("product", "request_failed")
                       /\ cnt' = [cnt EXCEPT !.product = @ + 1]
                       /\ files' = files
                  ELSE \E got \in Scraped[response[1]][product],
                          written \in BOOLEAN :
                      IF got.kind = "cancel"
                      THEN /\ pc' = "products"
                           /\ at' = at + 1
                           /\ last' = [Step("product", got.topic) EXCEPT
                                          !.soup = response[1],
                                          !.field = got.field]
                           /\ cnt' = [cnt EXCEPT !.product = @ + 1]
                           /\ files' = files
                      ELSE IF got.kind = "raise"
                      THEN /\ pc' = "raised"
                           /\ last' = [Step("product", "raised") EXCEPT
                                          !.soup = response[1]]
                           /\ cnt' = [cnt EXCEPT !.product = @ + 1]
                           /\ UNCHANGED << at, files >>
                      ELSE /\ pc' = "products"
                           /\ at' = at + 1
                           /\ IF written /\ Len(got.write_list) >= Len(CSV_HEADERS)
                              THEN /\ files' = [files EXCEPT ![csv_path[1]].lines =
                                         csv_append_row(@, got.write_list, turn)]
                                   /\ cnt' = [cnt EXCEPT !.product = @ + 1,
                                                         !.appended = @ + 1]
                                   /\ last' = [Step("product", "row") EXCEPT
                                          !.soup = response[1],
                                          !.write_list = got.write_list]
                              ELSE /\ files' = files
                                   /\ cnt' = [cnt EXCEPT !.product = @ + 1]
                                   /\ last' = [Step("product", "write_error") EXCEPT
                                          !.soup = response[1],
                                          !.write_list = got.write_list]
    /\ UNCHANGED << db, df, imp, call, web, suppliers, turn, list_url, depth, page, csv_path, clock,
                    outcome >>

\* access_page_products_list, lines 226-233: the next-page link and the
\* recursive call
access_page_next ==
    /\ pc = "products"
    /\ at > Len(page.products)
    /\ IF next_url(page) = 0
       THEN /\ Returned("done")
            /\ last' = Step("next", "none")
            /\ UNCHANGED << list_url, depth, cnt >>
       ELSE /\ pc' = "access"
            /\ list_url' = next_url(page)
            /\ depth' = depth + 1
            /\ cnt' = [cnt EXCEPT !.followed = @ + 1]
            /\ last' = Step("next", "follow")
            /\ outcome' = outcome
    /\ UNCHANGED << db, df, imp, call, web, suppliers, turn, page, at, csv_path, clock, files >>

\* handle's loop goes on to the next supplier; the clock may have moved on
handle_continue ==
    /\ pc = "returned"
    /\ pc' = "for"
    /\ turn' = turn + 1
    /\ \E t \in (IF turn < Len(suppliers) THEN {clock, clock + 1} ELSE {clock}) :
          clock' = t
    /\ list_url' = 0
    /\ depth' = 0
    /\ page' = NoPage
    /\ at' = 0
    /\ cnt' = ZeroCnt
    /\ last' = Step("continue", "")
    /\ UNCHANGED << db, df, imp, call, web, suppliers, csv_path, files, outcome >>

\* handle returns after the last supplier
handle_return ==
    /\ pc = "for"
    /\ turn > Len(suppliers)
    /\ pc' = "exit"
    /\ last' = Step("return", "")
    /\ UNCHANGED << db, df, imp, call, web, suppliers, turn, list_url, depth, page, at, csv_path, clock,
                    files, outcome, cnt >>

Next ==
    \/ handle_mkdir
    \/ handle_supplier
    \/ start_scrape
    \/ access_page_products_list
    \/ access_page_product
    \/ access_page_next
    \/ handle_continue
    \/ handle_return

Spec == Init /\ [][Next]_vars

\* the crawl of the two-page catalog with a final empty page
SpecE2E == InitWith("e2e") /\ [][Next]_vars

\* the crawl of a one-product catalog whose product page is any of Soups
SpecExtract == InitWith("one") /\ [][Next]_vars

\* the crawl of a one-entry catalog whose entry is any of Entries
SpecVisit == InitWith("visit") /\ [][Next]_vars

\* the command keeps running while it has a step to take
SpecFair == Spec /\ WF_vars(Next)

(***************************************************************************)
(* The cleaners run on their own: a call has the function, the tuple of    *)
(* its arguments and, once it has returned, its result.  The arguments are *)
(* drawn from the texts below.  MaxValues bounds the comma-separated       *)
(* tokens of a volume text and the spans of a strength element, MaxWords   *)
(* the words of a title.                                                   *)
(***************************************************************************)
MaxValues == 3

MaxWords == 3

\* the texts of a flavour region (the dd of the dt, or the span)
FlavourTexts ==
    { <<"L","e","m","o","n",","," ","P","a","s","t","r","y">>,
      <<"p","a","s","t","r","y","/","v","a","n","i","l","l","a">>,
      <<"I","c","e">>,
      <<" ","i","c","e"," ">>,
      <<"M","i","n","t",",","I","c","e">>,
      <<>> }

\* raw_flavours_dt (None, a dt without dd, a dt with its dd's text) and
\* raw_flavours_sub (None or the span's text)
FlavourArgs ==
    { <<dt, sub>> :
        dt \in {None, Some(None)} \cup {Some(Some(text)) : text \in FlavourTexts},
        sub \in {None} \cup {Some(text) : text \in FlavourTexts} }

\* the comma-separated tokens of a volume text
VolumeTokens ==
    { <<"1","0","m","l">>,
      <<" ","5","0","M","L">>,
      <<"5"," ","m","l">>,
      <<"5","0","+","1","0","m","l">>,
      <<>>,
      <<"3">> }

VolumeTexts ==
    { join(<<",">>, tokens) :
        tokens \in UNION {[1..n -> VolumeTokens] : n \in 1..MaxValues} }

\* the texts of the spans of a strength element
StrengthLabels ==
    { <<"3","m","g">>,
      <<"6","m","g">>,
      <<"0","M","G">>,
      <<"S","h","o","r","t","f","i","l","l">>,
      <<"N","i","c"," ","S","h","o","t">>,
      <<"S","H","O","R","T","F","I","L","L"," ","s","h","o","t">> }

StrengthLists == UNION {[1..n -> StrengthLabels] : n \in 0..MaxValues}

\* the words of a title
TitleWords ==
    { <<"L","e","m","o","n">>,
      <<"1","0","m","l">>,
      <<"E","-","L","i","q","u","i","d">>,
      <<"b","y">>,
      <<"B","Y">>,
      <<"R","u","b","y">>,
      <<"Z","a","p">> }

LemonTart ==
    <<"L","e","m","o","n"," ","T","a","r","t"," ","1","0","m","l"," ","E","-","L","i","q","u","i","d"," ">>
        \o <<"b","y"," ","D","i","n","n","e","r"," ","L","a","d","y">>

Titles ==
    { join(<<" ">>, words) :
        words \in UNION {[1..n -> TitleWords] : n \in 1..MaxWords} }
        \cup {LemonTart}

\* the words of a price text ("$" stands for the currency sign)
PriceWords ==
    { <<"F","r","o","m">>,
      <<"f","R","O","M","a","g","e">>,
      <<"$","1","2",".","9","9">>,
      <<"4",".","5","0">>,
      <<"1","2">>,
      <<".","9","9">>,
      <<"7",".">>,
      <<"1",".","2",".","3">> }

PriceTexts ==
    { join(<<" ">>, words) :
        words \in UNION {[1..n -> PriceWords] : n \in 0..MaxWords} }

Called(fn, args) == [fn |-> fn, args |-> args, result |-> <<>>]

Calls ==
    {Called("clean_flavours", args) : args \in FlavourArgs}
        \cup {Called("clean_volumes", <<text>>) : text \in VolumeTexts}
        \cup {Called("clean_strengths", <<labels>>) : labels \in StrengthLists}
        \cup {Called("clean_name_brand", <<text>>) : text \in Titles}
        \cup {Called("clean_price", <<text>>) : text \in PriceTexts}

InitClean ==
    /\ web = "none"
    /\ suppliers = <<>>
    /\ pc = "call"
    /\ turn = 1
    /\ list_url = 0
    /\ depth = 0
    /\ page = NoPage
    /\ at = 0
    /\ csv_path = None
    /\ clock = 0
    /\ files = [p \in {} |-> 0]
    /\ outcome = <<>>
    /\ cnt = ZeroCnt
    /\ last = Step("init", "")
    /\ call \in Calls
    /\ db = NoDb
    /\ df = <<>>
    /\ imp = NoImport

\* the called cleaner returns
Returns(result) ==
    /\ pc' = "return"
    /\ call' = [call EXCEPT !.result = result]
    /\ UNCHANGED << db, df, imp, web, suppliers, turn, list_url, depth, page, at,
                    csv_path, clock, files, outcome, cnt, last >>

\* or an exception leaves it
Raises ==
    /\ pc' = "raised"
    /\ UNCHANGED << db, df, imp, call, web, suppliers, turn, list_url, depth, page, at, csv_path,
                    clock, files, outcome, cnt, last >>

call_clean_flavours ==
    /\ pc = "call"
    /\ call.fn = "clean_flavours"
    /\ IF clean_flavours_raises(call.args[1], call.args[2])
       THEN Raises
       ELSE \E csv_flavours \in clean_flavours(call.args[1], call.args[2]) :
               Returns(csv_flavours)

call_clean_volumes ==
    /\ pc = "call"
    /\ call.fn = "clean_volumes"
    /\ Returns(clean_volumes(call.args[1]))

call_clean_strengths ==
    /\ pc = "call"
    /\ call.fn = "clean_strengths"
    /\ Returns(clean_strengths(call.args[1]))

call_clean_name_brand ==
    /\ pc = "call"
    /\ call.fn = "clean_name_brand"
    /\ Returns(clean_name_brand(call.args[1]))

call_clean_price ==
    /\ pc = "call"
    /\ call.fn = "clean_price"
    /\ Returns(clean_price(call.args[1]))

NextClean ==
    \/ call_clean_flavours
    \/ call_clean_volumes
    \/ call_clean_strengths
    \/ call_clean_name_brand
    \/ call_clean_price

\* one call of one cleaner on any of the arguments
SpecClean == InitClean /\ [][NextClean]_vars

(***************************************************************************)
(* The models.  A table of db is the tuple of its records, in the order    *)
(* they were stored; a foreign key is the place of the record it names.    *)
(* A create gives the exception it raises ("" for none), the database      *)
(* after it and the primary key of the record it stored.  The database     *)
(* enforces the constraints the model's Meta declares.                     *)
(***************************************************************************)
Failed(exception, d) == [error |-> exception, db |-> d, pk |-> 0]

Stored(d, pk) == [error |-> "", db |-> d, pk |-> pk]

\* UniqueConstraint(fields=...), and unique=True: no stored record has the
\* values of r in all the fields
unique_together(table, fields, r) ==
    \A i \in 1..Len(table) : \E f \in fields : table[i][f] # r[f]

\* a value outside the range of the column of a PositiveSmallIntegerField
PositiveSmallIntegerField_out_of_range(v) == v < 0 \/ v > 32767

\* a text longer than the max_length of its CharField
CharField_too_long(text, max_length) == Len(text) > max_length

\* ~Q(name='')
name_not_blank(r) == r.name # <<>>

Brand_objects_create(d, r) ==
    IF CharField_too_long(r.name, 50) THEN Failed("DataError", d)
    ELSE IF ~name_not_blank(r) \/ ~unique_together(d.Brand, {"name"}, r)
    THEN Failed("IntegrityError", d)
    ELSE Stored([d EXCEPT !.Brand = Append(@, r)], Len(d.Brand) + 1)

Flavour_objects_create(d, r) ==
    IF CharField_too_long(r.name, 50) THEN Failed("DataError", d)
    ELSE IF ~name_not_blank(r) \/ ~unique_together(d.Flavour, {"name"}, r)
    THEN Failed("IntegrityError", d)
    ELSE Stored([d EXCEPT !.Flavour = Append(@, r)], Len(d.Flavour) + 1)

\* Q(strength__gte=0)
Strength_strength_min(r) == r.strength >= 0

Strength_objects_create(d, r) ==
    IF PositiveSmallIntegerField_out_of_range(r.strength)
    THEN Failed("DataError", d)
    ELSE IF ~Strength_strength_min(r)
            \/ ~unique_together(d.Strength, {"strength"}, r)
    THEN Failed("IntegrityError", d)
    ELSE Stored([d EXCEPT !.Strength = Append(@, r)], Len(d.Strength) + 1)

Product_name_brand_unique_together == {"name", "brand"}

Product_objects_create(d, r) ==
    IF CharField_too_long(r.name, 100) THEN Failed("DataError", d)
    ELSE IF ~name_not_blank(r)
            \/ ~unique_together(d.Product, Product_name_brand_unique_together, r)
    THEN Failed("IntegrityError", d)
    ELSE Stored([d EXCEPT !.Product = Append(@, r)], Len(d.Product) + 1)

\* a variant check that only asks for a volume that is not negative
ProductVariant_volume_not_negative(r) == r.volume >= 0

\* Q(volume__gte=10)
ProductVariant_volume_min(r) == r.volume >= 10

\* Q(vg__gte=0) & Q(vg__lte=100)
ProductVariant_vg_valid_range(r) == r.vg >= 0 /\ r.vg <= 100

\* a variant constraint that tells shortfills apart too
ProductVariant_with_shortfill_unique_together ==
    {"product", "volume", "vg", "is_salt_nic", "is_shortfill"}

ProductVariant_prod_vol_vg_salt_unique_together ==
    {"product", "volume", "vg", "is_salt_nic"}

ProductVariant_objects_create(d, r) ==
    IF \/ PositiveSmallIntegerField_out_of_range(r.volume)
       \/ PositiveSmallIntegerField_out_of_range(r.vg)
    THEN Failed("DataError", d)
    ELSE IF \/ ~ProductVariant_volume_min(r)
            \/ ~ProductVariant_vg_valid_range(r)
            \/ ~unique_together(d.ProductVariant,
                                ProductVariant_prod_vol_vg_salt_unique_together, r)
    THEN Failed("IntegrityError", d)
    ELSE Stored([d EXCEPT !.ProductVariant = Append(@, r)],
                Len(d.ProductVariant) + 1)

\* ~Q(purchase_url='')
SupplierInfo_purchase_url_not_blank(r) == r.purchase_url # <<>>

\* Q(price__gte=0), Q(rating__gte=0) and Q(num_ratings__gte=0); price and
\* rating are stored in hundredths
SupplierInfo_mins(r) == r.price >= 0 /\ r.rating >= 0 /\ r.num_ratings >= 0

SupplierInfo_var_supp_unique_together == {"product_variant", "supplier"}

SupplierInfo_objects_create(d, r) ==
    IF \/ CharField_too_long(r.purchase_url, 200)
       \/ CharField_too_long(r.image_url, 200)
       \/ PositiveSmallIntegerField_out_of_range(r.num_ratings)
    THEN Failed("DataError", d)
    ELSE IF \/ ~SupplierInfo_purchase_url_not_blank(r)
            \/ ~SupplierInfo_mins(r)
            \/ ~unique_together(d.SupplierInfo,
                                SupplierInfo_var_supp_unique_together, r)
    THEN Failed("IntegrityError", d)
    ELSE Stored([d EXCEPT !.SupplierInfo = Append(@, r)],
                Len(d.SupplierInfo) + 1)

(***************************************************************************)
(* Creates on the models, in any order, on a database that has two brands  *)
(* and two suppliers.  MaxObjects bounds the products, variants and        *)
(* supplier infos stored.                                                  *)
(***************************************************************************)
MaxObjects == 4

DinnerLady == <<"D","i","n","n","e","r"," ","L","a","d","y">>

Zap == <<"Z","a","p">>

VapeClub == <<"V","a","p","e"," ","C","l","u","b">>

LemonTartUrl ==
    <<"h","t","t","p","s",":","/","/","v",".","u","k","/","l","e","m","o","n">>

\* the database of the model tests after their set-up
TestDb ==
    [NoDb EXCEPT !.Brand = <<[name |-> DinnerLady], [name |-> Zap]>>,
                 !.Supplier = <<[name |-> VapeClub], [name |-> Zap]>>]

\* the records a create is tried with
ProductKwargs ==
    [name : {<<"L","e","m","o","n"," ","T","a","r","t">>, <<>>},
     brand : 1..Len(TestDb.Brand)]

ProductVariantKwargs(d) ==
    [product : 1..Len(d.Product), volume : {-1, 9, 10}, vg : {-1, 50, 101},
     is_shortfill : BOOLEAN, is_salt_nic : BOOLEAN]

SupplierInfoKwargs(d) ==
    [product_variant : 1..Len(d.ProductVariant),
     supplier : 1..Len(d.Supplier),
     purchase_url : {LemonTartUrl}, image_url : {<<>>},
     price : {499}, rating : {450}, num_ratings : {73}]

\* the products, variants and supplier infos stored
Objects(d) == Len(d.Product) + Len(d.ProductVariant) + Len(d.SupplierInfo)

InitCreate ==
    /\ web = "none"
    /\ suppliers = <<>>
    /\ pc = "create"
    /\ turn = 1
    /\ list_url = 0
    /\ depth = 0
    /\ page = NoPage
    /\ at = 0
    /\ csv_path = None
    /\ clock = 0
    /\ files = [p \in {} |-> 0]
    /\ outcome = <<>>
    /\ cnt = ZeroCnt
    /\ last = Step("init", "")
    /\ call = NoCall
    /\ db = TestDb
    /\ df = <<>>
    /\ imp = NoImport

\* a create has returned or raised
Created(model, r, result) ==
    /\ call' = [fn |-> model, args |-> <<r>>, result |-> result.error]
    /\ db' = result.db
    /\ UNCHANGED << df, imp, web, suppliers, pc, turn, list_url, depth, page, at,
                    csv_path, clock, files, outcome, cnt, last >>

create_product ==
    /\ pc = "create"
    /\ Objects(db) < MaxObjects
    /\ \E r \in ProductKwargs : Created("Product", r, Product_objects_create(db, r))

create_variant ==
    /\ pc = "create"
    /\ Objects(db) < MaxObjects
    /\ \E r \in ProductVariantKwargs(db) :
          Created("ProductVariant", r, ProductVariant_objects_create(db, r))

create_supplier_info ==
    /\ pc = "create"
    /\ Objects(db) < MaxObjects
    /\ \E r \in SupplierInfoKwargs(db) :
          Created("SupplierInfo", r, SupplierInfo_objects_create(db, r))

NextCreate ==
    \/ create_product
    \/ create_variant
    \/ create_supplier_info

\* any sequence of creates
SpecCreate == InitCreate /\ [][NextCreate]_vars

(***************************************************************************)
(* The CSV import.  A cell of self.df is NaN (None) or Some(text):         *)
(* read_csv(dtype=str) gives NaN for an empty cell and for the texts of    *)
(* na_values.  Each safe_create_* stage gives, like a create, the          *)
(* exception it caught ("" for none), the database after it and the        *)
(* object or list of objects it returns.                                   *)
(***************************************************************************)
NaN == None

\* some of the texts pandas reads as NaN
na_values ==
    { <<>>, <<"N","A">>, <<"N","/","A">>, <<"N","a","N">>, <<"n","a","n">>,
      <<"n","u","l","l">>, <<"N","U","L","L">>, <<"n","/","a">> }

read_csv_cell(text) == IF text \in na_values THEN NaN ELSE Some(text)

\* read_csv on the lines of a file after the header
RECURSIVE read_csv(_)
read_csv(lines) ==
    IF Len(lines) = 0 THEN <<>>
    ELSE <<[f \in DOMAIN Head(lines) |-> read_csv_cell(Head(lines)[f])]>>
            \o read_csv(Tail(lines))

\* str(value) of a cell given to a CharField or URLField
str_value(cell) == IF IsNone(cell) THEN <<"n","a","n">> ELSE cell[1]

\* int(value) of a cell given to an integer field raises ValueError
int_raises(cell) == IsNone(cell) \/ ~int_ok(cell[1])

\* BooleanField.to_python on text.title(): the texts it takes for True and
\* for False
to_bool_ok(text) ==
    lower(text) \in {<<"t","r","u","e">>, <<"f","a","l","s","e">>, <<"1">>, <<"0">>}

to_bool(text) == lower(text) \in {<<"t","r","u","e">>, <<"1">>}

\* decimal.Decimal(text) takes the text: digits with an optional fraction
Decimal_ok(text) ==
    re_match(<<"\\d+", "(\\.\\d+)?">>, text, 1, FALSE) = Len(text) + 1

\* the value in hundredths, quantized to two places (ROUND_HALF_EVEN)
hundredths(text) ==
    LET parts == re_split({"."}, text)
        frac == IF Len(parts) = 1 THEN <<>> ELSE parts[2]
        two == SubSeq(frac \o <<"0", "0">>, 1, 2)
        floor == 100 * digits_value(parts[1]) + digits_value(two)
        more == \E i \in 4..Len(frac) : frac[i] # "0"
        up == /\ Len(frac) > 2
              /\ \/ Ord(frac[3]) > Ord("5")
                 \/ frac[3] = "5" /\ (more \/ floor % 2 = 1)
    IN  IF up THEN floor + 1 ELSE floor

\* format_number raises when the quantized value has more than max_digits
\* digits
DecimalField_raises(cell, max_digits) ==
    \/ IsNone(cell)
    \/ ~Decimal_ok(cell[1])
    \/ (max_digits = 3 /\ hundredths(cell[1]) > 999)
    \/ (max_digits = 5 /\ hundredths(cell[1]) > 99999)

\* Model.objects.create by the name of the model
objects_create(d, model, kwargs) ==
    CASE model = "Brand" -> Brand_objects_create(d, kwargs)
      [] model = "Flavour" -> Flavour_objects_create(d, kwargs)
      [] model = "Strength" -> Strength_objects_create(d, kwargs)
      [] model = "Product" -> Product_objects_create(d, kwargs)
      [] model = "ProductVariant" -> ProductVariant_objects_create(d, kwargs)
      [] model = "SupplierInfo" -> SupplierInfo_objects_create(d, kwargs)

\* Model.objects.get_or_create(**kwargs): the first record with these
\* values, or a create
get_or_create(d, model, kwargs) ==
    LET found == {i \in 1..Len(d[model]) : d[model][i] = kwargs}
    IN  IF found # {} THEN Stored(d, SetMin(found))
        ELSE objects_create(d, model, kwargs)

\* get_or_create for every record of a list, up to the first that raises;
\* pk is the list of the objects
RECURSIVE get_or_create_each(_, _, _)
get_or_create_each(d, model, list) ==
    IF Len(list) = 0 THEN Stored(d, <<>>)
    ELSE LET got == get_or_create(d, model, Head(list))
         IN  IF got.error # "" THEN got
             ELSE LET rest == get_or_create_each(got.db, model, Tail(list))
                  IN  IF rest.error # "" THEN rest
                      ELSE Stored(rest.db, <<got.pk>> \o rest.pk)

\* a variant that stores the link without looking for it
add_again(links, obj, other) == Append(links, <<obj, other>>)

\* obj.<many-to-many field>.add(other): the link is stored unless it is
add(links, obj, other) ==
    IF \E i \in 1..Len(links) : links[i] = <<obj, other>> THEN links
    ELSE Append(links, <<obj, other>>)

RECURSIVE add_each(_, _, _)
add_each(links, obj, list) ==
    IF Len(list) = 0 THEN links
    ELSE add_each(add(links, obj, Head(list)), obj, Tail(list))

RECURSIVE named(_)
named(values) ==
    IF Len(values) = 0 THEN <<>>
    ELSE <<[name |-> lower(Head(values))]>> \o named(Tail(values))

RECURSIVE strong(_)
strong(values) ==
    IF Len(values) = 0 THEN <<>>
    ELSE <<[strength |-> int(Head(values))]>> \o strong(Tail(values))

safe_create_brand(d, brand_name) ==
    get_or_create(d, "Brand", [name |-> str_value(brand_name)])

safe_create_flavours(d, cell_data) ==
    IF IsNone(cell_data) THEN Failed("AttributeError", d)
    ELSE get_or_create_each(d, "Flavour", named(re_split({"/"}, cell_data[1])))

safe_create_product(d, product_name, obj_brand, obj_flavour_list) ==
    LET got == get_or_create(d, "Product",
                   [name |-> str_value(product_name), brand |-> obj_brand])
    IN  IF got.error # "" THEN got
        ELSE Stored([got.db EXCEPT !.Product_flavours =
                        add_each(@, got.pk, obj_flavour_list)], got.pk)

\* the values up to the first that is not a number
RECURSIVE numbers(_)
numbers(values) ==
    IF Len(values) = 0 \/ ~int_ok(Head(values)) THEN <<>>
    ELSE <<Head(values)>> \o numbers(Tail(values))

safe_create_strengths(d, cell_data) ==
    IF IsNone(cell_data) THEN Failed("AttributeError", d)
    ELSE LET values == re_split({"/"}, cell_data[1])
             got == get_or_create_each(d, "Strength", strong(numbers(values)))
         IN  IF got.error # "" THEN got
             ELSE IF Len(numbers(values)) < Len(values)
             THEN Failed("ValueError", got.db)
             ELSE got

safe_create_variant(d, obj_product, volume, vg, is_shortfill, is_salt_nic, obj_strength_list) ==
    IF IsNone(is_shortfill) \/ IsNone(is_salt_nic)
    THEN Failed("AttributeError", d)
    ELSE IF int_raises(volume) \/ int_raises(vg) THEN Failed("ValueError", d)
    ELSE IF ~to_bool_ok(is_shortfill[1]) \/ ~to_bool_ok(is_salt_nic[1])
    THEN Failed("ValidationError", d)
    ELSE LET got == get_or_create(d, "ProductVariant",
                        [product |-> obj_product,
                         volume |-> int(volume[1]),
                         vg |-> int(vg[1]),
                         is_shortfill |-> to_bool(is_shortfill[1]),
                         is_salt_nic |-> to_bool(is_salt_nic[1])])
         IN  IF got.error # "" THEN got
             ELSE Stored([got.db EXCEPT !.ProductVariant_strengths =
                             add_each(@, got.pk, obj_strength_list)], got.pk)

safe_create_supplier_info(d, obj_variant, obj_supplier, purchase_url, image_url, price, rating, num_ratings) ==
    IF DecimalField_raises(price, 5) \/ DecimalField_raises(rating, 3)
    THEN Failed("InvalidOperation", d)
    ELSE IF int_raises(num_ratings) THEN Failed("ValueError", d)
    ELSE get_or_create(d, "SupplierInfo",
             [product_variant |-> obj_variant,
              supplier |-> obj_supplier,
              purchase_url |-> str_value(purchase_url),
              image_url |-> str_value(image_url),
              price |-> hundredths(price[1]),
              rating |-> hundredths(rating[1]),
              num_ratings |-> int(num_ratings[1])])

(***************************************************************************)
(* The import command run on a file, then run again on the same file, on   *)
(* a database that has the supplier.  MaxRows bounds the rows of the file, *)
(* MaxRuns the runs.                                                       *)
(***************************************************************************)
MaxRows == 2

MaxRuns == 2

\* a line as the scrape writes it
IceLine ==
    [name |-> <<"I","c","e">>, brand |-> Zap,
     flavours |-> <<"I","c","e","/","m","i","n","t">>,
     volumes |-> <<"1","0">>, vg |-> <<"7","0">>,
     strengths |-> <<"3","/","6">>,
     is_shortfill |-> <<"F","a","l","s","e">>,
     is_salt_nic |-> <<"F","a","l","s","e">>,
     purchase_url |-> LemonTartUrl, image_url |-> <<>>,
     price |-> <<"4",".","9","9">>, rating |-> <<"4",".","5">>,
     num_ratings |-> <<"7","3">>]

\* the lines of the files: the line above, another variant and another
\* product of its brand, and lines that fail at each of the six stages
CsvLines ==
    { IceLine,
      [IceLine EXCEPT !.volumes = <<"5","0">>, !.strengths = <<"0">>,
                      !.is_shortfill = <<"T","r","u","e">>],
      [IceLine EXCEPT !.name = <<"M","i","n","t">>,
                      !.flavours = <<"m","i","n","t">>],
      [IceLine EXCEPT !.brand = LemonTartUrl \o LemonTartUrl \o LemonTartUrl],
      [IceLine EXCEPT !.flavours = <<>>],
      [IceLine EXCEPT !.brand = DinnerLady,
                      !.name = LemonTartUrl \o LemonTartUrl \o LemonTartUrl
                                  \o LemonTartUrl \o LemonTartUrl \o LemonTartUrl],
      [IceLine EXCEPT !.flavours = <<"K","i","w","i","/","/","i","c","e">>],
      [IceLine EXCEPT !.name = <<"T","a","r","t">>, !.brand = DinnerLady,
                      !.strengths = <<"1","2","/","m","g">>],
      [IceLine EXCEPT !.is_shortfill = <<"T","r","u","e">>],
      [IceLine EXCEPT !.name = <<"M","i","n","t">>,
                      !.volumes = <<"5","0","/","5","0","+","1","0">>],
      [IceLine EXCEPT !.vg = <<"1","0","1">>],
      [IceLine EXCEPT !.purchase_url = LemonTartUrl \o <<"2">>],
      [IceLine EXCEPT !.name = <<"T","a","r","t">>, !.rating = <<"1","0">>] }

CsvFiles == UNION {[1..n -> CsvLines] : n \in 0..MaxRows}

\* the database the command needs: its supplier is stored
ImportDb == [NoDb EXCEPT !.Supplier = <<[name |-> VapeClub]>>]

\* self.obj_supplier = Supplier.objects.get(name=supplier_name)
obj_supplier == 1

\* the start of a row of a run
AtRow(run, row, errors, d, first) ==
    [run |-> run, row |-> row, stage |-> "brand", obj |-> <<>>,
     errors |-> errors, before |-> d, first |-> first]

InitImport ==
    /\ web = "none"
    /\ suppliers = <<>>
    /\ pc = "import"
    /\ turn = 1
    /\ list_url = 0
    /\ depth = 0
    /\ page = NoPage
    /\ at = 0
    /\ csv_path = None
    /\ clock = 0
    /\ files = [p \in {} |-> 0]
    /\ outcome = <<>>
    /\ cnt = ZeroCnt
    /\ last = Step("init", "")
    /\ call = NoCall
    /\ db = ImportDb
    /\ df \in {read_csv(lines) : lines \in CsvFiles}
    /\ imp = AtRow(1, 1, <<>>, ImportDb, <<>>)

\* a variant in which a row that failed leaves nothing behind
rolled_back(d, before) == before

\* the database after a stage has failed: no transaction spans the row, what
\* the stages have stored so far stays
after_failure(d, before) == d

\* a stage has returned: on None log_error has been called and handle goes
\* on with the next row, else with the next stage (after the supplier info
\* with the next row too)
Staged(topic, result, then) ==
    /\ pc = "import"
    /\ imp.row <= Len(df)
    /\ imp.stage = topic
    /\ IF result.error # ""
       THEN /\ db' = after_failure(result.db, imp.before)
            /\ imp' = AtRow(imp.run, imp.row + 1,
                            Append(imp.errors,
                                   [run |-> imp.run, row |-> imp.row,
                                    topic |-> topic, detail |-> result.error]),
                            db', imp.first)
       ELSE /\ db' = result.db
            /\ imp' = IF then = ""
                      THEN AtRow(imp.run, imp.row + 1, imp.errors, db', imp.first)
                      ELSE [imp EXCEPT !.stage = then,
                                       !.obj = Append(@, result.pk)]
    /\ UNCHANGED << df, call, web, suppliers, pc, turn, list_url, depth, page, at,
                    csv_path, clock, files, outcome, cnt, last >>

import_brand ==
    Staged("brand", safe_create_brand(db, df[imp.row].brand), "flavours")

import_flavours ==
    Staged("flavours", safe_create_flavours(db, df[imp.row].flavours), "product")

import_product ==
    Staged("product",
           safe_create_product(db, df[imp.row].name, imp.obj[1], imp.obj[2]),
           "strengths")

import_strengths ==
    Staged("strengths", safe_create_strengths(db, df[imp.row].strengths),
           "variant")

import_variant ==
    Staged("variant",
           safe_create_variant(db, imp.obj[3], df[imp.row].volumes,
                               df[imp.row].vg, df[imp.row].is_shortfill,
                               df[imp.row].is_salt_nic, imp.obj[4]),
           "supplier info")

import_supplier_info ==
    Staged("supplier info",
           safe_create_supplier_info(db, imp.obj[5], obj_supplier,
                                     df[imp.row].purchase_url,
                                     df[imp.row].image_url, df[imp.row].price,
                                     df[imp.row].rating, df[imp.row].num_ratings),
           "")

\* handle's loop is over: the command returns
import_return ==
    /\ pc = "import"
    /\ imp.row > Len(df)
    /\ pc' = "imported"
    /\ UNCHANGED << db, df, imp, call, web, suppliers, turn, list_url, depth, page,
                    at, csv_path, clock, files, outcome, cnt, last >>

\* the command is run again on the same file
import_again ==
    /\ pc = "imported"
    /\ imp.run < MaxRuns
    /\ pc' = "import"
    /\ imp' = AtRow(imp.run + 1, 1, imp.errors, db,
                    IF imp.run = 1 THEN <<db>> ELSE imp.first)
    /\ UNCHANGED << db, df, call, web, suppliers, turn, list_url, depth, page, at,
                    csv_path, clock, files, outcome, cnt, last >>

NextImport ==
    \/ import_brand
    \/ import_flavours
    \/ import_product
    \/ import_strengths
    \/ import_variant
    \/ import_supplier_info
    \/ import_return
    \/ import_again

\* the import of a file of up to MaxRows lines, MaxRuns times
SpecImport == InitImport /\ [][NextImport]_vars

(***************************************************************************)
(* The claims.                                                             *)
(***************************************************************************)
\* the turns whose outcome is in a set of results
TurnsWith(results) == {r \in 1..Len(suppliers) : outcome[r] \in results}

\* the current supplier's turn is still running
InTurn == pc \in {"start_scrape", "access", "products", "returned"}

\* C1: a failure on one product (a failed product-page request, a missing
\* region, a bad format, a sink write error) never aborts the crawl: after
\* it the controller is still in the loop over the entries of the page
C1_ProductFailureNeverAborts ==
    (last.op = "product" /\ last.result # "row") => pc = "products"

\* C2: once the request of a listing page has failed, the supplier's turn
\* makes no further request (so no retry either) and appends no further row
C2_ListingFailureHalts ==
    [][ (InTurn /\ outcome[turn] \in {"request_failed", "listing_failed"})
            => (cnt' = cnt \/ turn' # turn) /\ files' = files ]_vars

\* a first listing page gave a row, the request of the next page failed
\* and another supplier is still to come
C2_Witness ==
    /\ pc = "returned"
    /\ outcome[turn] = "listing_failed"
    /\ last = Step("listing", "request_failed")
    /\ cnt.listing = 2
    /\ cnt.appended >= 1
    /\ turn < Len(suppliers)

\* C3: every line of a file was written by the run that created the file,
\* and no step changes a file created by an earlier run
C3_OwnOutputFile ==
    [][ /\ \A p \in DOMAIN files :
              files[p].by < turn => (p \in DOMAIN files' /\ files'[p] = files[p])
        /\ \A p \in DOMAIN files' :
              \A n \in 1..Len(files'[p].lines) :
                  files'[p].lines[n].by = files'[p].by ]_vars

\* C4: a turn whose create_csv failed requests no listing page and appends
\* no row
C4_NoFileNoCrawl ==
    cnt.csv = "failed" => (cnt.listing = 0 /\ cnt.product = 0 /\ cnt.appended = 0)


\* C5: a fetched page without entries ends the run as done, whatever its
\* next-page link; otherwise the entries are handled one by one in page
\* order, and only after the last one the next-page URL is requested, or
\* the run is done when the page has no such link; nothing is requested or
\* appended after done
C5_ProcessingEntries ==
    [][ /\ (pc = "access" /\ last'.result # "request_failed")
            => IF Len(page'.products) = 0
               THEN pc' = "returned" /\ outcome'[turn] = "done"
               ELSE pc' = "products" /\ at' = 1
        /\ (pc = "products" /\ at <= Len(page.products))
            => pc' = "products" /\ at' = at + 1 /\ list_url' = list_url
        /\ (pc = "products" /\ at > Len(page.products))
            => IF page.next # 0
               THEN pc' = "access" /\ list_url' = page.next
               ELSE pc' = "returned" /\ outcome'[turn] = "done"
        /\ (InTurn /\ outcome[turn] = "done")
            => (cnt' = cnt \/ turn' # turn) /\ files' = files ]_vars

\* the run of the current supplier has ended as done
Done == pc = "returned" /\ outcome[turn] = "done"

\* C6 as stated: on the two-page catalog with an empty third page, a run
\* that is done has appended at most 4 rows and has requested listing
\* pages exactly twice
C6_TwoListingFetches ==
    Done => (cnt.appended <= 4 /\ cnt.listing = 2)

\* C6 amended: such a run has appended at most 4 rows, has followed
\* exactly 2 next-page links, and has requested a listing page 3 times in
\* the crawl (the start page, page 2, the empty page 3) after handle's one
\* request of the start URL
C6_TwoLinksThreeFetches ==
    Done => /\ cnt.appended <= 4
            /\ cnt.followed = 2
            /\ cnt.listing = 3
            /\ cnt.probe = 1

\* the run is done with all four products in the file
C6_Witness ==
    /\ web = "e2e"
    /\ Done
    /\ cnt.appended = 4
    /\ last = Step("listing", "empty")

\* the rows a run has written to the file that self.csv_path names
IsRowOf(line, r) == line.by = r /\ line.kind = "row"

RECURSIVE RowsOf(_, _)
RowsOf(lines, r) ==
    IF Len(lines) = 0 THEN <<>>
    ELSE IF IsRowOf(Head(lines), r)
    THEN <<Head(lines).cells>> \o RowsOf(Tail(lines), r)
    ELSE RowsOf(Tail(lines), r)

RowsOfTurn ==
    IF IsNone(csv_path) THEN <<>> ELSE RowsOf(files[csv_path[1]].lines, turn)

\* the entries of the two-page catalog in listing order, and the place in
\* it of the entry a row's purchase_url names
E2EListing ==
    E2EPages[1].products \o E2EPages[2].products \o E2EPages[3].products

PlaceOf(cells) ==
    CHOOSE n \in 1..Len(E2EListing) :
        product_url(Entries[E2EListing[n]]) = cells[9]

C8_SuppliersIndependent ==
    /\ (pc = "exit" /\ TurnsWith({"unsupported", "request_failed",
                                  "listing_failed"}) # {})
            => turn > Len(suppliers)
    /\ (pc = "returned"
            /\ outcome[turn] \in {"unsupported", "request_failed",
                                  "listing_failed"})
            => ENABLED handle_continue
    /\ (pc = "for" /\ turn <= Len(suppliers)) => ENABLED handle_supplier

\* a supported supplier has rows in its file after an unsupported one and
\* one whose request failed
C8_Witness ==
    /\ turn = Len(suppliers)
    /\ turn > 1
    /\ outcome[1] \in {"unsupported", "request_failed"}
    /\ suppliers[turn] = "vapeclub"
    /\ cnt.appended >= 1

\* C9: no exception leaves the visit filter, the page extractor or the
\* crawl controller
C9_NothingRaises == pc # "raised"

\* the cells an appended row must not leave empty: name, brand, flavours,
\* volumes, vg, strengths, price
NeverEmpty == {1, 2, 3, 4, 5, 6, 11}

\* C10: in every row of every file the fields other than image_url are
\* not the empty string
C10_RowFieldsNotEmpty ==
    \A p \in DOMAIN files :
        \A n \in 1..Len(files[p].lines) :
            files[p].lines[n].kind = "row"
                => \A c \in NeverEmpty : Len(files[p].lines[n].cells[c]) > 0

\* the cells of a row that hold several values: flavours, volumes, strengths
MultiValued == {3, 4, 6}

\* the values a cell holds: its pieces between the separators
ValuesOf(cell) == re_split(set(CSV_MULTIVAL_SEP), cell)

\* C11: in every row of every file the values of flavours, of volumes and
\* of strengths are in sorted order and none occurs twice
C11_MultiValuedSortedUnique ==
    \A p \in DOMAIN files :
        \A n \in 1..Len(files[p].lines) :
            files[p].lines[n].kind = "row"
                => \A c \in MultiValued :
                      LET values == ValuesOf(files[p].lines[n].cells[c])
                      IN  \A v \in 1..(Len(values) - 1) :
                              TextLess(values[v], values[v + 1])

\* the crawl of the current supplier has started: access_page_products_list
\* is running or has returned
Crawling ==
    \/ pc \in {"access", "products"}
    \/ pc = "returned" /\ outcome[turn] \in {"listing_failed", "done"}

\* the file the rows of the run go to
OutputFile == files[csv_path[1]]

\* C12: at every point of a supplier's crawl its output file is the header
\* line followed by one 13-field row per product of the run whose row has
\* been written so far, and nothing else (a product whose extraction was
\* cancelled, and one whose append failed, has no row)
C12_HeaderThenOneRowPerProduct ==
    Crawling =>
        /\ Len(OutputFile.lines) = 1 + cnt.appended
        /\ OutputFile.lines[1].kind = "header"
        /\ OutputFile.lines[1].cells = CSV_HEADERS
        /\ \A n \in 2..Len(OutputFile.lines) :
              /\ OutputFile.lines[n].kind = "row"
              /\ Len(OutputFile.lines[n].cells) = Len(CSV_HEADERS)

\* the crawl of the current supplier has ended as the specification allows:
\* natural completion, or the abort on a listing-page error
Completed ==
    pc = "returned" /\ outcome[turn] \in {"done", "listing_failed"}

\* C13: every crawl that has started ends as done or with the abort on a
\* failed listing-page request, whatever pages the listing URLs and the
\* next-page links give
C13_CrawlTerminates == (pc = "access") ~> Completed

\* the products a sequence of rows is about: their purchase_url cells
UrlsOf(rows) == {rows[n][9] : n \in 1..Len(rows)}

\* C14: two runs of one invocation for the same supplier, against the same
\* catalog, that have appended rows for the same products have appended the
\* same rows, cell by cell, in the same order
C14_SameRowsSameOrder ==
    \A r1 \in 1..Len(suppliers) : \A r2 \in 1..Len(suppliers) :
        \A p \in DOMAIN files : \A q \in DOMAIN files :
            (/\ suppliers[r1] = suppliers[r2]
             /\ UrlsOf(RowsOf(files[p].lines, r1)) = UrlsOf(RowsOf(files[q].lines, r2)))
                => RowsOf(files[p].lines, r1) = RowsOf(files[q].lines, r2)

\* the second run for vapeclub is done with the four rows the first run
\* has appended too
C14_Witness ==
    /\ web = "e2e"
    /\ suppliers = <<"vapeclub", "vapeclub">>
    /\ turn = 2
    /\ Done
    /\ Len(RowsOfTurn) = 4
    /\ \E p \in DOMAIN files : Len(RowsOf(files[p].lines, 1)) = 4

\* the link of the entry the loop over the products of the page is at
EntryAt == Entries[page.products[at]].h5[1][1]

\* what the visit filter is specified to reject, for a link with href and
\* text: the href lacks the category marker, or holds a skip-by-URL
\* substring, or the text holds a skip-by-title substring, letter case aside
MustReject(a) ==
    \/ ~Contains(<<"e","-","l","i","q","u","i","d","s">>, lower(str_attr(a.href)))
    \/ \E c \in 1..Len(SKIP_product_url_part) :
          Contains(SKIP_product_url_part[c], str_attr(a.href))
    \/ \E c \in 1..Len(SKIP_product_title) :
          Contains(SKIP_product_title[c], lower(a.text))

\* C15: when the entry the loop is at has a link that lacks the category
\* marker or matches a skip-by-URL or skip-by-title rule, should_visit
\* gives False: the step skips the entry and requests no product page
C15_RejectedNeverRequested ==
    [][ (/\ pc = "products"
         /\ at <= Len(page.products)
         /\ ~should_visit_raises(Entries[page.products[at]])
         /\ MustReject(EntryAt))
            => (/\ last' = Step("visit", "skip")
                /\ cnt'.product = cnt.product
                /\ files' = files) ]_vars

\* the entry with the text 'SHOT' under /e-liquids/ has just been skipped
C15_Witness ==
    /\ web = "visit"
    /\ last = Step("visit", "skip")
    /\ cnt.product = 0
    /\ Entries[page.products[1]].h5[1][1].text = <<"S","H","O","T">>
    /\ Entries[page.products[1]].h5[1][1].href
          = Some(<<"/","e","-","l","i","q","u","i","d","s","/","i","c","e">>)

\* a call of fn has returned
HasReturned(fn) == pc = "return" /\ call.fn = fn

\* the flavours of the pieces of a text, letter case and surrounding spaces
\* aside
FlavoursIn(text) ==
    {lower(strip(piece)) : piece \in set(re_split({",", "/"}, text))}

Increasing(values) ==
    \A v \in 1..(Len(values) - 1) : TextLess(values[v], values[v + 1])

\* C16: with a summary span, clean_flavours gives the '/'-join of the
\* sorted flavours of both sources, two flavours that differ only in letter
\* case or surrounding spaces being one value; "Lemon, Pastry" with
\* "pastry/vanilla" gives "lemon/pastry/vanilla"
C16_FlavoursUnionedCaseAside ==
    (HasReturned("clean_flavours") /\ ~IsNone(call.args[2])) =>
        LET both == FlavoursIn(call.args[2][1])
                        \cup (IF IsNone(call.args[1]) THEN {}
                              ELSE FlavoursIn(call.args[1][1][1]))
        IN  \E flavours \in listed(both) :
                /\ Increasing(flavours)
                /\ call.result = Some(join(CSV_MULTIVAL_SEP, flavours))

\* a comma-separated token of a volume text without its unit and the
\* spaces around it, and whether that is a number
Volume(token) == strip(re_sub(<<"m","l">>, strip(token), TRUE))

Numeric(token) ==
    /\ Len(Volume(token)) > 0
    /\ \A n \in 1..Len(Volume(token)) : IsDigit(Volume(token)[n])

VolumeTokensOf(text) == re_split({","}, text)

AllNumeric(text) ==
    /\ Len(text) > 0
    /\ \A n \in 1..Len(VolumeTokensOf(text)) : Numeric(VolumeTokensOf(text)[n])

\* C17: clean_volumes fails, giving (None, None), when the text is empty or
\* one of its comma-separated tokens, at any position, is not a number once
\* its unit and spaces are stripped
C17_NonNumericVolumeFails ==
    (HasReturned("clean_volumes") /\ ~AllNumeric(call.args[1]))
        => call.result = <<None, None>>

\* the volumes of a list of tokens
RECURSIVE Volumes(_)
Volumes(tokens) ==
    IF Len(tokens) = 0 THEN <<>>
    ELSE <<Volume(Head(tokens))>> \o Volumes(Tail(tokens))

\* C18: for a text whose tokens are all numbers, clean_volumes gives the
\* tokens without unit and surrounding spaces, joined by '/', and
\* is_shortfill is True exactly when one of them is above 10
C18_NumericVolumesJoined ==
    (HasReturned("clean_volumes") /\ AllNumeric(call.args[1])) =>
        LET volumes == Volumes(VolumeTokensOf(call.args[1]))
        IN  /\ call.result[1] = Some(join(CSV_MULTIVAL_SEP, volumes))
            /\ call.result[2]
                  = Some(\E n \in 1..Len(volumes) : digits_value(volumes[n]) > 10)

\* a strength label mentions a word, letter case aside
Mentions(word, label) == Contains(word, lower(label))

\* a strength label without its 'mg' units, in either letter case
RECURSIVE WithoutUnit(_)
WithoutUnit(label) ==
    IF Len(label) = 0 THEN <<>>
    ELSE IF Len(label) >= 2 /\ LowerChar(label[1]) = "m" /\ LowerChar(label[2]) = "g"
    THEN WithoutUnit(SubSeq(label, 3, Len(label)))
    ELSE <<label[1]>> \o WithoutUnit(Tail(label))

RECURSIVE WithoutUnits(_)
WithoutUnits(labels) ==
    IF Len(labels) = 0 THEN <<>>
    ELSE <<WithoutUnit(Head(labels))>> \o WithoutUnits(Tail(labels))

\* C19: clean_strengths gives "0" for a single label that mentions
\* 'shortfill', fails (None) for a single label that mentions 'shot' and
\* not 'shortfill', and gives in every other case the labels without
\* their 'mg' units joined by '/'
C19_StrengthsByLabels ==
    HasReturned("clean_strengths") =>
        LET labels == call.args[1]
        IN  IF Len(labels) = 1
                /\ Mentions(<<"s","h","o","r","t","f","i","l","l">>, labels[1])
            THEN call.result = Some(<<"0">>)
            ELSE IF Len(labels) = 1 /\ Mentions(<<"s","h","o","t">>, labels[1])
            THEN call.result = None
            ELSE call.result = Some(join(CSV_MULTIVAL_SEP, WithoutUnits(labels)))

\* the labels '3mg' and '6mg' have given '3/6'
C19_Witness ==
    /\ HasReturned("clean_strengths")
    /\ call.args[1] = << <<"3","m","g">>, <<"6","m","g">> >>
    /\ call.result = Some(<<"3","/","6">>)

\* the places of the word 'by', in either letter case, among the words of
\* a title
BysOf(words) == {w \in 1..Len(words) : lower(words[w]) = <<"b","y">>}

\* a half of a title without the noise patterns, its whitespace collapsed
Tidy(criteria, words) ==
    join(<<" ">>, split(remove_criteria(criteria, join(<<" ">>, words))))

\* C20: clean_name_brand fails, giving (None, None), exactly when no word
\* of the title is 'by'; otherwise the name is what stands before the
\* last word 'by' and the brand what stands after it, each without the
\* noise patterns and with its whitespace collapsed; the title 'Lemon Tart
\* 10ml E-Liquid by Dinner Lady' gives 'Lemon Tart' and 'Dinner Lady'
C20_SplitAtLastWordBy ==
    HasReturned("clean_name_brand") =>
        LET words == split(call.args[1])
            by == SetMax(BysOf(words))
        IN  /\ IF BysOf(words) = {}
               THEN call.result = <<None, None>>
               ELSE call.result =
                      << Some(Tidy(REMOVE_raw_name, SubSeq(words, 1, by - 1))),
                         Some(Tidy(REMOVE_raw_brand,
                                   SubSeq(words, by + 1, Len(words)))) >>
            /\ call.args[1] = LemonTart
                  => call.result =
                       << Some(<<"L","e","m","o","n"," ","T","a","r","t">>),
                          Some(<<"D","i","n","n","e","r"," ","L","a","d","y">>) >>

\* the six fields extraction checks, in the order of the checks
Fields == <<"price", "title", "flavours", "volumes", "vg", "strengths">>

\* the region of a field is absent from the page
Absent(soup, f) ==
    CASE f = "price" -> IsNone(soup.price)
      [] f = "title" -> IsNone(soup.title)
      [] f = "flavours" -> IsNone(soup.flavours_dt) /\ IsNone(soup.flavours_sub)
      [] f = "volumes" -> IsNone(soup.volumes)
      [] f = "vg" -> IsNone(soup.vg)
      [] f = "strengths" -> IsNone(soup.strengths)

\* the region of a field is there and its cleaner gives no value for it
Unclean(soup, f) ==
    /\ ~Absent(soup, f)
    /\ CASE f = "price" -> IsNone(clean_price(soup.price[1]))
         [] f = "title" -> \E v \in 1..2 : IsNone(clean_name_brand(soup.title[1])[v])
         [] f = "flavours" ->
              \/ clean_flavours_raises(soup.flavours_dt, soup.flavours_sub)
              \/ None \in clean_flavours(soup.flavours_dt, soup.flavours_sub)
         [] f = "volumes" -> \E v \in 1..2 : IsNone(clean_volumes(soup.volumes[1])[v])
         [] f = "vg" -> IsNone(clean_vg(soup.vg[1]))
         [] f = "strengths" -> IsNone(clean_strengths(soup.strengths[1]))

\* the place in Fields of the first field that is absent or unclean, or 0
FirstFailure(soup) ==
    LET failing == {f \in 1..Len(Fields) :
                       Absent(soup, Fields[f]) \/ Unclean(soup, Fields[f])}
    IN  IF failing = {} THEN 0 ELSE SetMin(failing)

\* a product page was requested and parsed in the last step
Parsed == last.op = "product" /\ last.soup # 0

\* the number a pattern recognizes in a text that may be absent
Number(p, text) == IF IsNone(text) THEN None ELSE re_search(p, text[1], FALSE)

\* the title of the star span of a rating widget, when it has one
RatingTitle(widget) ==
    IF IsNone(widget.stars) \/ IsNone(widget.stars[1]) THEN None
    ELSE widget.stars[1][1]

\* the rating and the number of ratings of a page: the two numbers of its
\* widget when both are recognizable, else the zero default
RatingsOf(soup) ==
    LET rating == Number(<<"\\d+", "(\\.\\d+)?">>, RatingTitle(soup.review[1]))
        num == Number(<<"\\d+">>, soup.review[1].reviews)
    IN  IF IsNone(soup.review) THEN << <<"0">>, <<"0">> >>
        ELSE IF IsNone(rating) \/ IsNone(num) THEN << <<"0">>, <<"0">> >>
        ELSE <<rating[1], num[1]>>

\* C21: the rating never makes the extraction of a page fail: when the six
\* fields of a page are extracted, its row is handed to the file with the
\* two numbers of its rating widget when both are recognizable, and with
\* (0, 0) when the page has no widget or either number is absent or
\* unrecognizable
C21_RatingNeverFails ==
    (Parsed /\ FirstFailure(Soups[last.soup]) = 0)
        => /\ last.result \in {"row", "write_error"}
           /\ last.write_list[12] = RatingsOf(Soups[last.soup])[1]
           /\ last.write_list[13] = RatingsOf(Soups[last.soup])[2]

\* a text is a number with a fraction: digits, one period, digits
IsDecimal(text) ==
    \E k \in 2..(Len(text) - 1) :
        /\ text[k] = "."
        /\ \A j \in (1..Len(text)) \ {k} : IsDigit(text[j])

\* the pieces of a text that are such numbers, by first and last place
DecimalsIn(text) ==
    {ij \in (1..Len(text)) \X (1..Len(text)) :
        ij[1] < ij[2] /\ IsDecimal(SubSeq(text, ij[1], ij[2]))}

\* the first of them: the piece that starts leftmost, at its longest
FirstDecimal(text) ==
    LET i == SetMin({ij[1] : ij \in DecimalsIn(text)})
        j == SetMax({ij[2] : ij \in {d \in DecimalsIn(text) : d[1] = i}})
    IN  SubSeq(text, i, j)

\* the word 'from' is in a text, in any letter case
HasFrom(text) ==
    \E i \in 1..(Len(text) - 3) :
        /\ text[i] \in {"f", "F"}
        /\ text[i + 1] \in {"r", "R"}
        /\ text[i + 2] \in {"o", "O"}
        /\ text[i + 3] \in {"m", "M"}

\* C22: clean_price fails (None) on a text that contains 'from' in any
\* letter case or no digits-period-digits number, and gives the first such
\* number of every other text
C22_PriceFirstDecimalUnlessFrom ==
    HasReturned("clean_price") =>
        LET text == call.args[1]
        IN  IF HasFrom(text) \/ DecimalsIn(text) = {}
            THEN call.result = None
            ELSE call.result = Some(FirstDecimal(text))

\* 'From $12.99' has failed
C22_Witness ==
    /\ HasReturned("clean_price")
    /\ call.args[1] = <<"F","r","o","m"," ","$","1","2",".","9","9">>
    /\ call.result = None

\* the names a diagnostic has for a field
NamesOf(f) == IF f = "title" THEN {"title", "name/brand"} ELSE {f}

\* C25: when a field of the parsed page is absent or unclean, the
\* extraction stops at the first such field in the order price, title,
\* flavours, volumes, vg, strengths: no row is appended and the diagnostic
\* names that field with the stage html when the region is absent and
\* format when it is there and cannot be cleaned
C25_FirstFailureDiagnosed ==
    (Parsed /\ FirstFailure(Soups[last.soup]) # 0)
        => LET f == Fields[FirstFailure(Soups[last.soup])]
           IN  /\ last.result
                    = (IF Absent(Soups[last.soup], f) THEN "html" ELSE "format")
               /\ last.field \in NamesOf(f)
               /\ last.write_list = <<>>
               /\ cnt.appended = 0

\* the page differs from the complete page GoodSoup in no region but its
\* flavour regions
OnlyFlavoursDiffer(soup) ==
    [soup EXCEPT !.flavours_dt = GoodSoup.flavours_dt,
                 !.flavours_sub = GoodSoup.flavours_sub] = GoodSoup

\* the text of the one flavour source of a page that has exactly one
OneFlavourSource(soup) ==
    IF IsNone(soup.flavours_dt) THEN soup.flavours_sub[1]
    ELSE soup.flavours_dt[1][1]

\* C26: on a page that has exactly one of the two flavour sources, the
\* definition-list detail or the summary span, whichever it is, the
\* flavours are extracted and are the flavours of that source
C26_OneFlavourSourceSuffices ==
    (/\ Parsed
     /\ OnlyFlavoursDiffer(Soups[last.soup])
     /\ IsNone(Soups[last.soup].flavours_dt) # IsNone(Soups[last.soup].flavours_sub)
     /\ ~IsNone(Soups[last.soup].flavours_dt)
            => ~IsNone(Soups[last.soup].flavours_dt[1]))
        => /\ last.result \in {"row", "write_error"}
           /\ set(ValuesOf(last.write_list[3]))
                = set(strip_each(re_split({",", "/"},
                                          OneFlavourSource(Soups[last.soup]))))

\* the page differs from GoodSoup in no region but its image block
OnlyImageDiffers(soup) == [soup EXCEPT !.image = GoodSoup.image] = GoodSoup

\* the image URL of a page: the target of the link of its image block,
\* else the source of its image, else the empty string
ImageOf(soup) ==
    IF IsNone(soup.image) THEN <<>>
    ELSE IF ~IsNone(soup.image[1].a) /\ ~IsNone(soup.image[1].a[1])
    THEN soup.image[1].a[1][1]
    ELSE IF ~IsNone(soup.image[1].img) /\ ~IsNone(soup.image[1].img[1])
    THEN soup.image[1].img[1][1]
    ELSE <<>>

\* C27: whatever the image block of a page holds, the page is extracted,
\* with the target of the block's link as image URL when there is one,
\* else the source of the block's image when there is one, else ''
C27_ImageLinkThenSource ==
    (Parsed /\ OnlyImageDiffers(Soups[last.soup]))
        => /\ last.result \in {"row", "write_error"}
           /\ last.write_list[10] = ImageOf(Soups[last.soup])

\* no rule of the visit filter excludes a link with href and text: the
\* href holds the category marker and no skip-by-URL substring, the text no
\* skip-by-title substring, letter case aside
NoRuleExcludes(a) ==
    /\ ~IsNone(a.href)
    /\ Contains(<<"e","-","l","i","q","u","i","d","s">>, lower(a.href[1]))
    /\ \A c \in 1..Len(SKIP_product_url_part) :
          ~Contains(SKIP_product_url_part[c], lower(a.href[1]))
    /\ \A c \in 1..Len(SKIP_product_title) :
          ~Contains(SKIP_product_title[c], lower(a.text))

\* C28: when no rule excludes the link of the entry the loop is at,
\* should_visit gives True: the step requests the product page
C28_UnexcludedVisited ==
    [][ (/\ pc = "products"
         /\ at <= Len(page.products)
         /\ ~should_visit_raises(Entries[page.products[at]])
         /\ NoRuleExcludes(EntryAt))
            => (/\ last'.op = "product"
                /\ cnt'.product = cnt.product + 1) ]_vars

\* two records of a table have the same values in all the fields
Shared(table, fields) ==
    \E i, j \in 1..Len(table) :
        i # j /\ \A f \in fields : table[i][f] = table[j][f]

\* a record would share the values of the fields with a stored record
WouldShare(table, fields, r) ==
    \E i \in 1..Len(table) : \A f \in fields : table[i][f] = r[f]

\* the fields no two records of a model may share
KeyOf(model) ==
    CASE model = "Product" -> {"name", "brand"}
      [] model = "ProductVariant" -> {"product", "volume", "vg", "is_salt_nic"}
      [] model = "SupplierInfo" -> {"product_variant", "supplier"}

\* C23: after every create no two products share (name, brand), no two
\* variants (product, volume, vg, is_salt_nic) and no two supplier infos
\* (product_variant, supplier); a create whose record would share them
\* with a stored record raises IntegrityError and stores nothing
C23_UniqueTogether ==
    [][ /\ \A model \in {"Product", "ProductVariant", "SupplierInfo"} :
              ~Shared(db'[model], KeyOf(model))
        /\ WouldShare(db[call'.fn], KeyOf(call'.fn), call'.args[1])
              => (call'.result = "IntegrityError" /\ db' = db)
      ]_vars

\* a second variant of the same product, volume, vg and salt has just
\* been refused with IntegrityError, one variant being stored
C23_Witness ==
    /\ call.fn = "ProductVariant"
    /\ call.result = "IntegrityError"
    /\ Len(db.ProductVariant) = 1
    /\ WouldShare(db.ProductVariant, KeyOf("ProductVariant"), call.args[1])

\* C24: every stored variant has a volume of at least 10 and a vg from 0 to
\* 100; the create of a variant with a negative volume or vg raises
\* DataError, that of a variant with a volume from 0 to 9 or a vg above 100
\* IntegrityError, and neither stores a variant
C24_VolumeAndVgChecked ==
    [][ /\ \A i \in 1..Len(db'.ProductVariant) :
              /\ db'.ProductVariant[i].volume >= 10
              /\ db'.ProductVariant[i].vg >= 0
              /\ db'.ProductVariant[i].vg <= 100
        /\ call'.fn = "ProductVariant"
              => LET r == call'.args[1]
                 IN  IF r.volume < 0 \/ r.vg < 0
                     THEN call'.result = "DataError" /\ db' = db
                     ELSE IF r.volume < 10 \/ r.vg > 100
                     THEN call'.result = "IntegrityError" /\ db' = db
                     ELSE TRUE
      ]_vars

\* a variant with volume 9 has just been refused with IntegrityError
C24_Witness ==
    /\ call.fn = "ProductVariant"
    /\ call.args[1].volume = 9
    /\ call.args[1].vg = 50
    /\ call.result = "IntegrityError"
    /\ db.ProductVariant = <<>>

\* C29: when the import is run again on the same file, it stores no new
\* record in any table and no new link, and every record and link stays as
\* the first run left it
C29_ImportIdempotent == imp.run >= 2 => db = imp.first[1]

\* the second run of a file of two lines is over, the first run having
\* stored a supplier info
C29_Witness ==
    /\ pc = "imported"
    /\ imp.run = 2
    /\ Len(df) = 2
    /\ Len(db.SupplierInfo) >= 1
    /\ Len(db.Product_flavours) >= 2

\* what the stage the import is at gives
StageResult ==
    LET row == df[imp.row]
    IN  CASE imp.stage = "brand" -> safe_create_brand(db, row.brand)
          [] imp.stage = "flavours" -> safe_create_flavours(db, row.flavours)
          [] imp.stage = "product" ->
                safe_create_product(db, row.name, imp.obj[1], imp.obj[2])
          [] imp.stage = "strengths" -> safe_create_strengths(db, row.strengths)
          [] imp.stage = "variant" ->
                safe_create_variant(db, imp.obj[3], row.volumes, row.vg,
                                    row.is_shortfill, row.is_salt_nic, imp.obj[4])
          [] imp.stage = "supplier info" ->
                safe_create_supplier_info(db, imp.obj[5], obj_supplier,
                                          row.purchase_url, row.image_url,
                                          row.price, row.rating, row.num_ratings)

\* every record and link of d is in e, at its place
Kept(d, e) ==
    \A t \in DOMAIN d :
        Len(d[t]) <= Len(e[t]) /\ SubSeq(e[t], 1, Len(d[t])) = d[t]

\* a row of a run was logged as failed, or its supplier info is stored
Processed(run, row) ==
    \/ \E e \in 1..Len(imp.errors) :
          imp.errors[e].run = run /\ imp.errors[e].row = row
    \/ \E i \in 1..Len(db.SupplierInfo) :
          LET info == db.SupplierInfo[i]
              variant == db.ProductVariant[info.product_variant]
          IN  /\ info.purchase_url = str_value(df[row].purchase_url)
              /\ db.Product[variant.product].name = str_value(df[row].name)

\* C30: when a stage of a row fails, the failure is logged with the row and
\* the stage and the import goes on with the next row; everything stored so
\* far, by the earlier stages of the row and by the other rows, stays
\* stored as it is; and when the command returns every row was processed
C30_FailedRowSkippedNothingUndone ==
    [][ /\ (pc = "import" /\ imp.row <= Len(df) /\ StageResult.error # "")
              => /\ imp'.errors
                      = Append(imp.errors,
                               [run |-> imp.run, row |-> imp.row,
                                topic |-> imp.stage, detail |-> StageResult.error])
                 /\ pc' = "import"
                 /\ imp'.row = imp.row + 1
                 /\ imp'.stage = "brand"
                 /\ db' = StageResult.db
        /\ Kept(db, db')
        /\ (pc = "import" /\ pc' = "imported")
              => \A row \in 1..Len(df) : Processed(imp.run, row)
      ]_vars

\* the first of two rows has failed at its variant: its brand, flavours,
\* product and strengths are stored, and so are the product, the variant
\* and the supplier info of the second row
C30_Witness ==
    /\ pc = "imported"
    /\ imp.run = 1
    /\ Len(df) = 2
    /\ imp.errors = <<[run |-> 1, row |-> 1, topic |-> "variant",
                       detail |-> "IntegrityError"]>>
    /\ Len(db.Product) = 2
    /\ db.Strength # <<>>
    /\ Len(db.ProductVariant) = 1
    /\ Len(db.SupplierInfo) = 1
    /\ db.ProductVariant[1].product = 2

====
